---- MODULE Spec2Model ----
(***************************************************************************)
(* Skill-activation harness: the monitored test runner (runner.ts), the    *)
(* aggregator (report.ts), the sandbox lifecycle (sandbox.ts) and the two  *)
(* orchestration drivers (main.ts, head-to-head.ts).                       *)
(***************************************************************************)
EXTENDS Integers, Sequences, FiniteSets, TLC

VARIABLES
    driver,       \* which entry point runs: "main" (main.ts) or "h2h" (head-to-head.ts)
    pc,           \* position of the driver between two awaits
    cfgIdx,       \* index into configIds of the configuration being run
    tcIdx,        \* loop variable i of runConfig, counted from 1
    results,      \* runConfig's local `results`
    configResult, \* runConfig's local `configResult`
    pending,      \* completion of runConfig's try block, held while finally runs
    allResults,   \* main's accumulator `allResults`
    errorLog,     \* the "ERROR running config" lines main logged
    created,      \* handles createSandbox returned (a handle is its cfgIdx)
    teardowns,    \* per handle: number of teardownSandbox invocations
    deleted,      \* handles daytona.delete removed
    rt,           \* the runTest invocation: idle, running, returned or threw
    lastExec,     \* what sandbox.process.executeCommand did in the last runTest
    cfgStatus,    \* per index of configIds: notrun, running, failed or succeeded
    env,          \* the credential variables set in process.env
    argConfig,    \* the value after --config in process.argv, or NoArg
    configIds,    \* main's `configIds`
    aggIn,        \* arguments of a direct aggregateResults call
    aggOut,       \* value that call returned
    printed,      \* what the driver has written to the console after the loop
    callIn,       \* argument of a direct call of a pure function
    callOut       \* what that call did

vars == <<driver, pc, cfgIdx, tcIdx, results, configResult, pending, allResults,
          errorLog, created, teardowns, deleted, rt, lastExec, cfgStatus, env,
          argConfig, configIds, aggIn, aggOut, printed, callIn, callOut>>

(***************************************************************************)
(* JavaScript values, as JSON.parse produces them.                         *)
(***************************************************************************)
Undefined == [t |-> "undefined"]
Null == [t |-> "null"]
Str(s) == [t |-> "string", s |-> s]
Num(n) == [t |-> "number", n |-> n]
Arr(items) == [t |-> "array", items |-> items]
Obj(f) == [t |-> "object", f |-> f]

\* v.name for a value that is not null or undefined: a missing property,
\* and any property of a primitive or an array that the parser reads, is undefined
Prop(v, name) ==
    IF v.t = "object" /\ name \in DOMAIN v.f THEN v.f[name] ELSE Undefined

\* if (v)
Truthy(v) ==
    CASE v.t = "undefined" -> FALSE
      [] v.t = "null" -> FALSE
      [] v.t = "string" -> v.s # ""
      [] v.t = "number" -> v.n # 0
      [] OTHER -> TRUE

\* typeof v === 'object'
TypeofObject(v) == v.t \in {"object", "array", "null"}

\* a ?? b
Nullish(a, b) == IF a.t \in {"undefined", "null"} THEN b ELSE a

Range(s) == {s[i] : i \in 1..Len(s)}

\* Array.prototype.push in place of Set.prototype.add
SetAdd_Push(skills, name) == Append(skills, name)

\* Set.prototype.add on an insertion-ordered set, held as a duplicate-free sequence
SetAdd(skills, name) == IF name \in Range(skills) THEN skills ELSE Append(skills, name)

(***************************************************************************)
(* runner.ts: the activation parser                                        *)
(***************************************************************************)
\* input.args consulted before input.skill
extractSkillName_ArgsFirst(input) ==
    IF Prop(input, "args").t = "string" /\ Prop(input, "args").s # ""
    THEN Prop(input, "args")
    ELSE IF Prop(input, "skill").t = "string" /\ Prop(input, "skill").s # ""
         THEN Prop(input, "skill")
         ELSE Null

extractSkillName(input) ==
    IF Prop(input, "skill").t = "string" /\ Prop(input, "skill").s # ""
    THEN Prop(input, "skill")
    ELSE IF Prop(input, "args").t = "string" /\ Prop(input, "args").s # ""
         THEN Prop(input, "args")
         ELSE Null

\* the test on the type alone
IsSkillToolUse_AnyTool(block) == Prop(block, "type") = Str("tool_use")

\* block.type === 'tool_use' && block.name === 'Skill'
IsSkillToolUse(block) ==
    Prop(block, "type") = Str("tool_use") /\ Prop(block, "name") = Str("Skill")

\* const input = block.input; if (input) { const skillName = ...; if (skillName) skills.add(skillName) }
AddSkillOf(skills, block) ==
    LET input == Prop(block, "input") IN
    IF Truthy(input)
    THEN LET skillName == extractSkillName(input) IN
         IF Truthy(skillName) THEN SetAdd(skills, skillName.s) ELSE skills
    ELSE skills

\* for (const block of content) if (block && typeof block === 'object' && ...) ...
RECURSIVE ScanContent(_, _, _)
ScanContent(skills, items, i) ==
    IF i > Len(items) THEN skills
    ELSE LET block == items[i] IN
         ScanContent(
            IF Truthy(block) /\ TypeofObject(block) /\ IsSkillToolUse(block)
            THEN AddSkillOf(skills, block) ELSE skills,
            items, i + 1)

\* Pattern 1: content_block_start with tool_use type
Pattern1(skills, obj) ==
    IF Prop(obj, "type") = Str("content_block_start")
    THEN LET block == Prop(obj, "content_block") IN
         IF IsSkillToolUse(block) THEN AddSkillOf(skills, block) ELSE skills
    ELSE skills

\* pattern 2 keyed on obj.type alone
Pattern2_TypeOnly(skills, obj) ==
    IF Prop(obj, "type") = Str("assistant")
    THEN LET msg == Prop(obj, "message")
             content == Nullish(Prop(msg, "content"), Prop(obj, "content")) IN
         IF content.t = "array" THEN ScanContent(skills, content.items, 1) ELSE skills
    ELSE skills

\* Pattern 2: assistant message with content array containing tool_use blocks
Pattern2(skills, obj) ==
    IF Prop(obj, "type") = Str("assistant") \/ Prop(obj, "role") = Str("assistant")
    THEN LET msg == Prop(obj, "message")
             content == Nullish(Prop(msg, "content"), Prop(obj, "content")) IN
         IF content.t = "array" THEN ScanContent(skills, content.items, 1) ELSE skills
    ELSE skills

\* Pattern 3: direct tool_use object
Pattern3(skills, obj) ==
    IF IsSkillToolUse(obj) THEN AddSkillOf(skills, obj) ELSE skills

\* Pattern 4: tool_use in a message event
Pattern4(skills, obj) ==
    IF Prop(obj, "type") = Str("message") /\ Truthy(Prop(obj, "message"))
    THEN LET content == Prop(Prop(obj, "message"), "content") IN
         IF content.t = "array" THEN ScanContent(skills, content.items, 1) ELSE skills
    ELSE skills

\* A line of the captured text: blank after trim, text JSON.parse rejects, or
\* the text of one JSON value
BlankLine == [kind |-> "blank"]
NoiseLine == [kind |-> "noise"]
JsonLine(v) == [kind |-> "json", val |-> v]

\* try { parsed = JSON.parse(trimmed) } catch { continue }
JSONParse(line) ==
    IF line.kind = "json" THEN [ok |-> TRUE, val |-> line.val] ELSE [ok |-> FALSE]

\* the body of the loop over lines
ScanLine(skills, line) ==
    IF line.kind = "blank" THEN skills
    ELSE LET p == JSONParse(line) IN
         IF ~p.ok THEN skills
         ELSE IF ~Truthy(p.val) \/ ~TypeofObject(p.val) THEN skills
         ELSE Pattern4(Pattern3(Pattern2(Pattern1(skills, p.val), p.val), p.val), p.val)

\* a loop that ends at the first line it cannot use
RECURSIVE ScanLines_StopAtBadLine(_, _, _)
ScanLines_StopAtBadLine(skills, lines, i) ==
    IF i > Len(lines) THEN skills
    ELSE IF lines[i].kind # "json" THEN skills
    ELSE ScanLines_StopAtBadLine(ScanLine(skills, lines[i]), lines, i + 1)

RECURSIVE ScanLines(_, _, _)
ScanLines(skills, lines, i) ==
    IF i > Len(lines) THEN skills
    ELSE ScanLines(ScanLine(skills, lines[i]), lines, i + 1)

\* stdout is the sequence of lines stdout.split('\n') yields
parseSkillActivations(stdout) == ScanLines(<<>>, stdout, 1)

\* Reading a property of v without ?. throws a TypeError
ReadThrows(v) == v.t \in {"undefined", "null"}

\* block.input, then extractSkillName(input) reading input.skill, under if (input)
AddSkillThrows(block) ==
    \/ ReadThrows(block)
    \/ LET input == Prop(block, "input") IN Truthy(input) /\ ReadThrows(input)

\* the reads of the loop over a content array: block.type and block.name under
\* block && typeof block === 'object', then the reads of AddSkillOf
ContentThrows(items) ==
    \E i \in 1..Len(items) :
        LET block == items[i] IN
        Truthy(block) /\ TypeofObject(block) /\
            (ReadThrows(block) \/ (IsSkillToolUse(block) /\ AddSkillThrows(block)))

\* the reads of the four patterns on a parsed object: obj.type, obj.content_block,
\* obj.message, obj.content and msg.content in pattern 4 are read without ?.
PatternsThrow(obj) ==
    \/ ReadThrows(obj)
    \/ /\ Prop(obj, "type") = Str("content_block_start")
       /\ IsSkillToolUse(Prop(obj, "content_block"))
       /\ AddSkillThrows(Prop(obj, "content_block"))
    \/ /\ Prop(obj, "type") = Str("assistant") \/ Prop(obj, "role") = Str("assistant")
       /\ LET content == Nullish(Prop(Prop(obj, "message"), "content"), Prop(obj, "content"))
          IN content.t = "array" /\ ContentThrows(content.items)
    \/ IsSkillToolUse(obj) /\ AddSkillThrows(obj)
    \/ /\ Prop(obj, "type") = Str("message") /\ Truthy(Prop(obj, "message"))
       /\ \/ ReadThrows(Prop(obj, "message"))
          \/ LET content == Prop(Prop(obj, "message"), "content")
             IN content.t = "array" /\ ContentThrows(content.items)

\* an exception leaves parseSkillActivations: JSON.parse throws inside the try,
\* everything after it is outside
ParseThrows(stdout) ==
    \E i \in 1..Len(stdout) :
        LET line == stdout[i] IN
        /\ line.kind # "blank"
        /\ JSONParse(line).ok
        /\ Truthy(JSONParse(line).val) /\ TypeofObject(JSONParse(line).val)
        /\ PatternsThrow(JSONParse(line).val)

(***************************************************************************)
(* Fixed data: the catalog and the two batteries.  The batteries are the   *)
(* first NumTests entries of a sample of the source lists, kept in source  *)
(* order; the catalog holds two of the five entries of HOOK_CONFIGS.       *)
(***************************************************************************)
NumTests == 2

NONE == "none"

HOOK_CONFIGS == <<
    [id |-> "forced-eval", label |-> "Forced eval (shell multi-step)", extra_files |-> 1],
    [id |-> "llm-eval", label |-> "LLM eval (Haiku pre-eval)", extra_files |-> 1] >>

CONFIGS_TO_TEST == <<"forced-eval", "llm-eval">>

TEST_CASES_SAMPLE == <<
    [id |-> "act-001", query |-> "How do I use $state in Svelte 5?",
     expected_skill |-> "svelte-runes"],
    [id |-> "act-002", query |-> "How do I create reactive state with $derived?",
     expected_skill |-> "svelte-runes"],
    [id |-> "act-006", query |-> "How do I create a load function in SvelteKit?",
     expected_skill |-> "sveltekit-data-flow"] >>

HARD_TEST_CASES_SAMPLE == <<
    [id |-> "hard-011", query |-> "svelte 5 runes help pls",
     expected_skill |-> "svelte-runes"],
    [id |-> "hard-016", query |-> "How do I center a div in CSS?",
     expected_skill |-> NONE],
    [id |-> "hard-021",
     query |-> "My SvelteKit app has a flicker on navigation, data loads twice",
     expected_skill |-> "sveltekit-data-flow"] >>

TEST_CASES == SubSeq(TEST_CASES_SAMPLE, 1, NumTests)
HARD_TEST_CASES == SubSeq(HARD_TEST_CASES_SAMPLE, 1, NumTests)

\* config.ts getHookConfig: the entry found, or a throw
HasHookConfig(id) == \E i \in 1..Len(HOOK_CONFIGS) : HOOK_CONFIGS[i].id = id
getHookConfig(id) ==
    HOOK_CONFIGS[CHOOSE i \in 1..Len(HOOK_CONFIGS) :
        HOOK_CONFIGS[i].id = id /\ \A j \in 1..(i - 1) : HOOK_CONFIGS[j].id # id]

\* config.ts HOOK_CONFIGS in full; the driver runs above are checked over the
\* two entries the head-to-head comparison names
ALL_HOOK_CONFIGS == <<
    [id |-> "none", label |-> "No hook (control)", extra_files |-> 0],
    [id |-> "simple", label |-> "Simple instruction (shell echo)", extra_files |-> 1],
    [id |-> "forced-eval", label |-> "Forced eval (shell multi-step)", extra_files |-> 1],
    [id |-> "llm-eval", label |-> "LLM eval (Haiku pre-eval)", extra_files |-> 1],
    [id |-> "type-prompt", label |-> "Native type:prompt hook", extra_files |-> 0] >>

\* catalog.find((c) => c.id === id): the index of the first match, 0 for undefined
CatalogFind(catalog, id) ==
    IF \E i \in 1..Len(catalog) : catalog[i].id = id
    THEN CHOOSE i \in 1..Len(catalog) :
            catalog[i].id = id /\ \A j \in 1..(i - 1) : catalog[j].id # id
    ELSE 0

\* variant of getHookConfigOf: the undefined of find is returned
getHookConfigOf_NoThrow(catalog, id) ==
    IF CatalogFind(catalog, id) = 0
    THEN [kind |-> "returned", value |-> [id |-> "<undefined>"]]
    ELSE [kind |-> "returned", value |-> catalog[CatalogFind(catalog, id)]]

\* getHookConfig over a catalog: if (!config) throw new Error(...); return config
getHookConfigOf(catalog, id) ==
    IF CatalogFind(catalog, id) = 0
    THEN [kind |-> "threw", message |-> "Unknown hook config"]
    ELSE [kind |-> "returned", value |-> catalog[CatalogFind(catalog, id)]]

\* getConfigIds over a catalog: catalog.map((c) => c.id)
getConfigIds(catalog) == [i \in 1..Len(catalog) |-> catalog[i].id]

(***************************************************************************)
(* runner.ts runTest: the two ways it builds a TestResult                  *)
(***************************************************************************)
NoError == "<absent>"

\* variant of runTestTry: activated set from the match with the expected skill
runTestTry_ActivatedFromMatch(testCase, hookConfigId, response, latencyMs) ==
    LET stdout == IF response.result.t \in {"undefined", "null"}
                  THEN <<BlankLine>> ELSE response.result.lines
        activatedSkills == parseSkillActivations(stdout)
        correct == testCase.expected_skill \in Range(activatedSkills)
    IN [test_id |-> testCase.id, hook_config |-> hookConfigId, query |-> testCase.query,
        expected_skill |-> testCase.expected_skill, activated_skills |-> activatedSkills,
        activated |-> correct, correct |-> correct, latency_ms |-> latencyMs,
        error |-> NoError]

\* variant of runTestTry: correct set from any activation
runTestTry_CorrectFromAny(testCase, hookConfigId, response, latencyMs) ==
    LET stdout == IF response.result.t \in {"undefined", "null"}
                  THEN <<BlankLine>> ELSE response.result.lines
        activatedSkills == parseSkillActivations(stdout)
        activated == Len(activatedSkills) > 0
    IN [test_id |-> testCase.id, hook_config |-> hookConfigId, query |-> testCase.query,
        expected_skill |-> testCase.expected_skill, activated_skills |-> activatedSkills,
        activated |-> activated, correct |-> activated, latency_ms |-> latencyMs,
        error |-> NoError]

\* variant of runTestTry: a negative case is correct when nothing activated
runTestTry_NegativeAware(testCase, hookConfigId, response, latencyMs) ==
    LET stdout == IF response.result.t \in {"undefined", "null"}
                  THEN <<BlankLine>> ELSE response.result.lines
        activatedSkills == parseSkillActivations(stdout)
        activated == Len(activatedSkills) > 0
        correct == IF testCase.expected_skill = NONE THEN ~activated
                   ELSE testCase.expected_skill \in Range(activatedSkills)
    IN [test_id |-> testCase.id, hook_config |-> hookConfigId, query |-> testCase.query,
        expected_skill |-> testCase.expected_skill, activated_skills |-> activatedSkills,
        activated |-> activated, correct |-> correct, latency_ms |-> latencyMs,
        error |-> NoError]

\* lines 168-185: executeCommand returned `response`
runTestTry(testCase, hookConfigId, response, latencyMs) ==
    LET stdout == IF response.result.t \in {"undefined", "null"}
                  THEN <<BlankLine>> ELSE response.result.lines
        activatedSkills == parseSkillActivations(stdout)
        activated == Len(activatedSkills) > 0
        correct == testCase.expected_skill \in Range(activatedSkills)
    IN [test_id |-> testCase.id,
        hook_config |-> hookConfigId,
        query |-> testCase.query,
        expected_skill |-> testCase.expected_skill,
        activated_skills |-> activatedSkills,
        activated |-> activated,
        correct |-> correct,
        latency_ms |-> latencyMs,
        error |-> NoError]

\* variant of runTestCatch: the message of the error is dropped
runTestCatch_NoMessage(testCase, hookConfigId, err, latencyMs) ==
    [test_id |-> testCase.id, hook_config |-> hookConfigId, query |-> testCase.query,
     expected_skill |-> testCase.expected_skill, activated_skills |-> <<>>,
     activated |-> FALSE, correct |-> FALSE, latency_ms |-> latencyMs,
     error |-> "Error"]

\* lines 186-201: executeCommand threw `err`
runTestCatch(testCase, hookConfigId, err, latencyMs) ==
    LET errorMsg == err.message
    IN [test_id |-> testCase.id,
        hook_config |-> hookConfigId,
        query |-> testCase.query,
        expected_skill |-> testCase.expected_skill,
        activated_skills |-> <<>>,
        activated |-> FALSE,
        correct |-> FALSE,
        latency_ms |-> latencyMs,
        error |-> errorMsg]

(***************************************************************************)
(* report.ts aggregateResults.  A JavaScript number that is a quotient of  *)
(* two small integers is held as the reduced fraction it rounds.           *)
(***************************************************************************)
RECURSIVE GCD(_, _)
GCD(a, b) == IF b = 0 THEN a ELSE GCD(b, a % b)

\* a / b for integers a >= 0, b > 0
Divide(a, b) == LET g == GCD(a, b) IN [num |-> a \div g, den |-> b \div g]

\* the literal 0
Zero == [num |-> 0, den |-> 1]

\* results.reduce((sum, r) => sum + r.latency_ms, 0)
RECURSIVE SumLatency(_, _, _)
SumLatency(rs, i, sum) ==
    IF i > Len(rs) THEN sum ELSE SumLatency(rs, i + 1, sum + rs[i].latency_ms)

\* variant of aggregateResults: the accuracy rate taken from the activated count
aggregateResults_RateSlip(hookConfig, rs) ==
    LET activated_count == Len(SelectSeq(rs, LAMBDA r : r.activated))
        correct_count == Len(SelectSeq(rs, LAMBDA r : r.correct))
        total == Len(rs)
    IN [hook_config |-> hookConfig.id, total_tests |-> total,
        activated_count |-> activated_count, correct_count |-> correct_count,
        activation_rate |-> IF total > 0 THEN Divide(activated_count, total) ELSE Zero,
        accuracy_rate |-> IF total > 0 THEN Divide(activated_count, total) ELSE Zero,
        avg_latency_ms |-> IF total > 0 THEN Divide(SumLatency(rs, 1, 0), total) ELSE Zero,
        results |-> rs]

\* variant of aggregateResults: the rates taken by integer division
aggregateResults_FloorRate(hookConfig, rs) ==
    LET activated_count == Len(SelectSeq(rs, LAMBDA r : r.activated))
        correct_count == Len(SelectSeq(rs, LAMBDA r : r.correct))
        total == Len(rs)
    IN [hook_config |-> hookConfig.id, total_tests |-> total,
        activated_count |-> activated_count, correct_count |-> correct_count,
        activation_rate |-> IF total > 0 THEN Divide(activated_count \div total, 1) ELSE Zero,
        accuracy_rate |-> IF total > 0 THEN Divide(correct_count \div total, 1) ELSE Zero,
        avg_latency_ms |-> IF total > 0 THEN Divide(SumLatency(rs, 1, 0), total) ELSE Zero,
        results |-> rs]

aggregateResults(hookConfig, rs) ==
    LET activated_count == Len(SelectSeq(rs, LAMBDA r : r.activated))
        correct_count == Len(SelectSeq(rs, LAMBDA r : r.correct))
        total == Len(rs)
        avg_latency_ms == IF total > 0 THEN Divide(SumLatency(rs, 1, 0), total) ELSE Zero
    IN [hook_config |-> hookConfig.id,
        total_tests |-> total,
        activated_count |-> activated_count,
        correct_count |-> correct_count,
        activation_rate |-> IF total > 0 THEN Divide(activated_count, total) ELSE Zero,
        accuracy_rate |-> IF total > 0 THEN Divide(correct_count, total) ELSE Zero,
        avg_latency_ms |-> avg_latency_ms,
        results |-> rs]

(***************************************************************************)
(* What the sandbox service and the monitored command may do                *)
(***************************************************************************)
Text(lines) == [t |-> "text", lines |-> lines]

SkillBlock(name) ==
    Obj([type |-> Str("tool_use"), name |-> Str("Skill"),
         input |-> Obj([skill |-> Str(name)])])

\* stream-json lines of the claude CLI
InitLine == JsonLine(Obj([type |-> Str("system"), subtype |-> Str("init")]))
BlockStartLine(name) ==
    JsonLine(Obj([type |-> Str("content_block_start"), content_block |-> SkillBlock(name)]))
AssistantLine(name) ==
    JsonLine(Obj([type |-> Str("assistant"),
                  message |-> Obj([content |-> Arr(<<SkillBlock(name)>>)])]))

\* ExecuteResponse values of sandbox.process.executeCommand
Responses == {
    [exitCode |-> 0, result |-> Text(<<InitLine, BlockStartLine("svelte-runes")>>)],
    [exitCode |-> 0, result |-> Text(<<InitLine, AssistantLine("sveltekit-data-flow"), NoiseLine>>)],
    [exitCode |-> 0, result |-> Text(<<InitLine, NoiseLine>>)],
    [exitCode |-> 0, result |-> Undefined],
    [exitCode |-> 1, result |-> Text(<<BlankLine>>)],
    [exitCode |-> 1, result |-> Text(<<NoiseLine>>)] }

\* Error values the SDK calls reject with
ExecErrors == {[message |-> "Command execution timed out"], [message |-> "socket hang up"]}
UploadError == [message |-> "upload failed"]
CreateError == [message |-> "Failed to create sandbox"]
SetupError == [message |-> "setup failed"]
SaveError == [message |-> "EACCES: permission denied"]
DeleteError == [message |-> "Failed to delete sandbox"]

\* Date.now() - startMs
Latencies == {1500}

REQUIRED_ENV == {"ANTHROPIC_API_KEY", "DAYTONA_API_KEY"}
NoArg == "<absent>"
ArgSamples == {NoArg, "forced-eval", "llm-eval", "bogus"}

NoCompletion == [kind |-> "none"]
NoConfigResult == [hook_config |-> "<unset>"]
NoExec == [kind |-> "none"]

(***************************************************************************)
(* report.ts generateReport and the two analyses of head-to-head.ts, as    *)
(* the values they print                                                   *)
(***************************************************************************)
NotPrinted == [printed |-> FALSE]
NothingPrinted == [report |-> NotPrinted, negatives |-> NotPrinted, diff |-> NotPrinted]
NoCall == [kind |-> "none"]

\* the comparison table, one row per ConfigResult in list order, and the JSON file
generateReport(allRes) ==
    [printed |-> TRUE,
     rows |-> [i \in 1..Len(allRes) |->
                 [config |-> allRes[i].hook_config,
                  activation |-> <<allRes[i].activation_rate, allRes[i].activated_count,
                                   allRes[i].total_tests>>,
                  correct |-> <<allRes[i].accuracy_rate, allRes[i].correct_count,
                                allRes[i].total_tests>>,
                  latency |-> allRes[i].avg_latency_ms]],
     json |-> allRes]

\* variant of printNegativeAnalysis: true negatives taken from the correct flag
printNegativeAnalysis_ByCorrect(allRes) ==
    [printed |-> TRUE,
     configs |-> [i \in 1..Len(allRes) |->
        LET cr == allRes[i]
            negatives == SelectSeq(cr.results, LAMBDA r : r.expected_skill = NONE)
            trueNeg == Len(SelectSeq(negatives, LAMBDA r : r.correct))
            falsePos == Len(SelectSeq(negatives, LAMBDA r : r.activated))
        IN [hook_config |-> cr.hook_config,
            trueNeg |-> trueNeg,
            falsePos |-> falsePos,
            total |-> Len(negatives),
            lines |-> [j \in 1..Len(negatives) |->
                         [icon |-> IF negatives[j].activated THEN "FP" ELSE "TN",
                          test_id |-> negatives[j].test_id]]]]]

\* head-to-head.ts printNegativeAnalysis: per ConfigResult the two counts and
\* one line per negative result
printNegativeAnalysis(allRes) ==
    [printed |-> TRUE,
     configs |-> [i \in 1..Len(allRes) |->
        LET cr == allRes[i]
            negatives == SelectSeq(cr.results, LAMBDA r : r.expected_skill = NONE)
            trueNeg == Len(SelectSeq(negatives, LAMBDA r : ~r.activated))
            falsePos == Len(SelectSeq(negatives, LAMBDA r : r.activated))
        IN [hook_config |-> cr.hook_config,
            trueNeg |-> trueNeg,
            falsePos |-> falsePos,
            total |-> Len(negatives),
            lines |-> [j \in 1..Len(negatives) |->
                         [icon |-> IF negatives[j].activated THEN "FP" ELSE "TN",
                          test_id |-> negatives[j].test_id]]]]]

\* results.find((r) => r.test_id === id): the index of the first match, 0 for undefined
Find(rs, id) ==
    IF \E i \in 1..Len(rs) : rs[i].test_id = id
    THEN CHOOSE i \in 1..Len(rs) :
            rs[i].test_id = id /\ \A j \in 1..(i - 1) : rs[j].test_id # id
    ELSE 0

\* the loop of printDiffTable over `positives`, from index i with the counters in acc
RECURSIVE DiffLoop(_, _, _, _, _)
DiffLoop(a, b, positives, i, acc) ==
    IF i > Len(positives) THEN acc
    ELSE LET tc == positives[i]
             ia == Find(a.results, tc.id)
             ib == Find(b.results, tc.id)
         IN IF ia = 0 \/ ib = 0 THEN DiffLoop(a, b, positives, i + 1, acc)
            ELSE LET aOk == a.results[ia].correct
                     bOk == b.results[ib].correct
                 IN DiffLoop(a, b, positives, i + 1,
                       IF aOk = bOk
                       THEN [acc EXCEPT !.ties = @ + 1]
                       ELSE IF aOk /\ ~bOk
                            THEN [acc EXCEPT !.aWins = @ + 1,
                                             !.wins = Append(@, [winner |-> a.hook_config,
                                                                 test_id |-> tc.id])]
                            ELSE [acc EXCEPT !.bWins = @ + 1,
                                             !.wins = Append(@, [winner |-> b.hook_config,
                                                                 test_id |-> tc.id])])

\* variant of printDiffTable: the loop runs over every test case
printDiffTable_AllCases(allRes) ==
    IF Len(allRes) < 2 THEN NotPrinted
    ELSE LET a == allRes[1]
             b == allRes[2]
         IN DiffLoop(a, b, HARD_TEST_CASES, 1,
                     [printed |-> TRUE, a |-> a.hook_config, b |-> b.hook_config,
                      aWins |-> 0, bWins |-> 0, ties |-> 0, wins |-> <<>>])

\* head-to-head.ts printDiffTable
printDiffTable(allRes) ==
    IF Len(allRes) < 2 THEN NotPrinted
    ELSE LET a == allRes[1]
             b == allRes[2]
             positives == SelectSeq(HARD_TEST_CASES, LAMBDA tc : tc.expected_skill # NONE)
         IN DiffLoop(a, b, positives, 1,
                     [printed |-> TRUE, a |-> a.hook_config, b |-> b.hook_config,
                      aWins |-> 0, bWins |-> 0, ties |-> 0, wins |-> <<>>])

(***************************************************************************)
(* main.ts / head-to-head.ts: the drivers                                  *)
(***************************************************************************)
Battery == IF driver = "main" THEN TEST_CASES ELSE HARD_TEST_CASES

ConfigId == configIds[cfgIdx]

Init ==
    /\ driver \in {"main", "h2h"}
    /\ env \in SUBSET REQUIRED_ENV
    /\ argConfig \in ArgSamples
    /\ driver = "h2h" => argConfig = NoArg
    /\ pc = "start"
    /\ configIds = <<>>
    /\ cfgIdx = 1
    /\ tcIdx = 1
    /\ results = <<>>
    /\ configResult = NoConfigResult
    /\ pending = NoCompletion
    /\ allResults = <<>>
    /\ errorLog = <<>>
    /\ created = {}
    /\ teardowns = <<>>
    /\ deleted = {}
    /\ rt = "idle"
    /\ lastExec = NoExec
    /\ cfgStatus = <<>>
    /\ aggIn = [hookConfig |-> HOOK_CONFIGS[1], results |-> <<>>]
    /\ aggOut = NoConfigResult
    /\ printed = NothingPrinted
    /\ callIn = NoCall
    /\ callOut = NoCall

runVars == <<tcIdx, results, configResult, pending, rt, lastExec>>
sandboxVars == <<created, teardowns, deleted>>
inputVars == <<driver, env, argConfig>>
aggVars == <<aggIn, aggOut>>
outVars == <<printed, callIn, callOut>>

\* main().catch: console.error and process.exit(1)
Fatal ==
    /\ pc' = "fatal"
    /\ UNCHANGED <<configIds, cfgIdx, cfgStatus, allResults, errorLog>>

\* the configuration loop starts over `ids`
StartLoop(ids) ==
    /\ configIds' = ids
    /\ cfgStatus' = [i \in 1..Len(ids) |-> "notrun"]
    /\ cfgIdx' = 1
    /\ pc' = "loop"
    /\ UNCHANGED <<allResults, errorLog>>

\* variant of ValidateEnv: no credential is looked at
ValidateEnv_NoCheck ==
    /\ pc = "start"
    /\ IF driver = "main"
       THEN pc' = "parseArgs"
            /\ UNCHANGED <<configIds, cfgIdx, cfgStatus, allResults, errorLog>>
       ELSE StartLoop(CONFIGS_TO_TEST)
    /\ UNCHANGED <<runVars, sandboxVars, inputVars, aggVars, outVars>>

\* validateEnv(), and in head-to-head.ts the start of the loop
ValidateEnv ==
    /\ pc = "start"
    /\ IF REQUIRED_ENV \ env # {} THEN Fatal
       ELSE IF driver = "main"
            THEN pc' = "parseArgs"
                 /\ UNCHANGED <<configIds, cfgIdx, cfgStatus, allResults, errorLog>>
            ELSE StartLoop(CONFIGS_TO_TEST)
    /\ UNCHANGED <<runVars, sandboxVars, inputVars, aggVars, outVars>>

\* main.ts parseArgs()
ParseArgs ==
    /\ pc = "parseArgs"
    /\ IF argConfig # NoArg
       THEN IF HasHookConfig(argConfig) THEN StartLoop(<<argConfig>>) ELSE Fatal
       ELSE StartLoop([i \in 1..Len(HOOK_CONFIGS) |-> HOOK_CONFIGS[i].id])
    /\ UNCHANGED <<runVars, sandboxVars, inputVars, aggVars, outVars>>

\* variant of CatchConfigError: the error ends the loop
CatchConfigError_Abort(err) ==
    /\ errorLog' = Append(errorLog, [config |-> ConfigId, message |-> err.message])
    /\ cfgStatus' = [cfgStatus EXCEPT ![cfgIdx] = "failed"]
    /\ allResults' = allResults
    /\ cfgIdx' = Len(configIds) + 1
    /\ pc' = "loop"

\* main's catch around runConfig: log the error, go on with the next configuration
CatchConfigError(err) ==
    /\ errorLog' = Append(errorLog, [config |-> ConfigId, message |-> err.message])
    /\ cfgStatus' = [cfgStatus EXCEPT ![cfgIdx] = "failed"]
    /\ allResults' = allResults
    /\ cfgIdx' = cfgIdx + 1
    /\ pc' = "loop"

\* variant of PushResult: allResults.unshift(result)
PushResult_Unshift(result) ==
    /\ allResults' = <<result>> \o allResults
    /\ cfgStatus' = [cfgStatus EXCEPT ![cfgIdx] = "succeeded"]
    /\ errorLog' = errorLog
    /\ cfgIdx' = cfgIdx + 1
    /\ pc' = "loop"

\* runConfig returned: allResults.push(result)
PushResult(result) ==
    /\ allResults' = Append(allResults, result)
    /\ cfgStatus' = [cfgStatus EXCEPT ![cfgIdx] = "succeeded"]
    /\ errorLog' = errorLog
    /\ cfgIdx' = cfgIdx + 1
    /\ pc' = "loop"

\* variant of LeaveTry: an exception skips the teardown
LeaveTry_NoFinally(completion) ==
    /\ pending' = completion
    /\ pc' = IF completion.kind = "throw" THEN "completed" ELSE "finally"

\* control leaves runConfig's try block with `completion`: the finally block runs next
LeaveTry(completion) ==
    /\ pending' = completion
    /\ pc' = "finally"

Throw(err) == [kind |-> "throw", err |-> err]
Return(value) == [kind |-> "return", value |-> value]

\* runConfig up to the end of createSandbox
CreateSandbox ==
    /\ pc = "loop"
    /\ cfgIdx <= Len(configIds)
    /\ \/ /\ HasHookConfig(ConfigId)
          /\ "ANTHROPIC_API_KEY" \in env
          /\ created' = created \cup {cfgIdx}
          /\ teardowns' = [i \in 1..cfgIdx |-> IF i < cfgIdx /\ i \in DOMAIN teardowns
                                                THEN teardowns[i] ELSE 0]
          /\ cfgStatus' = [cfgStatus EXCEPT ![cfgIdx] = "running"]
          /\ pc' = "setup"
          /\ UNCHANGED <<cfgIdx, allResults, errorLog, deleted>>
       \/ /\ CatchConfigError(
                IF ~HasHookConfig(ConfigId)
                THEN [message |-> "Unknown hook config"]
                ELSE IF "ANTHROPIC_API_KEY" \notin env
                     THEN [message |-> "ANTHROPIC_API_KEY environment variable is required"]
                     ELSE CreateError)
          /\ UNCHANGED sandboxVars
    /\ tcIdx' = 1
    /\ results' = <<>>
    /\ configResult' = NoConfigResult
    /\ pending' = NoCompletion
    /\ rt' = "idle"
    /\ lastExec' = NoExec
    /\ UNCHANGED <<configIds, inputVars, aggVars, outVars>>

\* await setupSandbox(sandbox, config)
SetupSandbox ==
    /\ pc = "setup"
    /\ \/ pc' = "uploadMonitor" /\ UNCHANGED pending
       \/ LeaveTry(Throw(SetupError))
    /\ UNCHANGED <<tcIdx, results, configResult, rt, lastExec, cfgIdx, cfgStatus,
                   allResults, errorLog, configIds, sandboxVars, inputVars, aggVars, outVars>>

\* await uploadMonitorScript(sandbox)
UploadMonitorScript ==
    /\ pc = "uploadMonitor"
    /\ \/ pc' = "tests" /\ UNCHANGED pending
       \/ LeaveTry(Throw(UploadError))
    /\ UNCHANGED <<tcIdx, results, configResult, rt, lastExec, cfgIdx, cfgStatus,
                   allResults, errorLog, configIds, sandboxVars, inputVars, aggVars, outVars>>

\* runTest up to its try block: await sandbox.fs.uploadFile(query, queryFile)
RunTestUpload ==
    /\ pc = "tests"
    /\ tcIdx <= Len(Battery)
    /\ lastExec' = NoExec
    /\ \/ rt' = "running" /\ pc' = "exec" /\ UNCHANGED pending
       \/ rt' = "threw" /\ LeaveTry(Throw(UploadError))
    /\ UNCHANGED <<tcIdx, results, configResult, cfgIdx, cfgStatus,
                   allResults, errorLog, configIds, sandboxVars, inputVars, aggVars, outVars>>

\* variant of RunTestExec: the result of a failed execution is not pushed
RunTestExec_DropFailed ==
    /\ pc = "exec"
    /\ \E latencyMs \in Latencies :
         \/ \E response \in Responses :
              /\ lastExec' = [kind |-> "response", response |-> response]
              /\ results' = Append(results,
                                   runTestTry(Battery[tcIdx], ConfigId, response, latencyMs))
         \/ \E err \in ExecErrors :
              /\ lastExec' = [kind |-> "threw", err |-> err]
              /\ results' = results
    /\ rt' = "returned"
    /\ tcIdx' = tcIdx + 1
    /\ pc' = "tests"
    /\ UNCHANGED <<configResult, pending, cfgIdx, cfgStatus, allResults, errorLog,
                   configIds, sandboxVars, inputVars, aggVars, outVars>>

\* runTest's try/catch around executeCommand, then results.push(result) in runConfig
RunTestExec ==
    /\ pc = "exec"
    /\ \E latencyMs \in Latencies :
         \/ \E response \in Responses :
              /\ lastExec' = [kind |-> "response", response |-> response]
              /\ results' = Append(results,
                                   runTestTry(Battery[tcIdx], ConfigId, response, latencyMs))
         \/ \E err \in ExecErrors :
              /\ lastExec' = [kind |-> "threw", err |-> err]
              /\ results' = Append(results,
                                   runTestCatch(Battery[tcIdx], ConfigId, err, latencyMs))
    /\ rt' = "returned"
    /\ tcIdx' = tcIdx + 1
    /\ pc' = "tests"
    /\ UNCHANGED <<configResult, pending, cfgIdx, cfgStatus, allResults, errorLog,
                   configIds, sandboxVars, inputVars, aggVars, outVars>>

\* the loop over the battery is over: aggregateResults(config, results)
Aggregate ==
    /\ pc = "tests"
    /\ tcIdx > Len(Battery)
    /\ configResult' = aggregateResults(getHookConfig(ConfigId), results)
    /\ rt' = "idle"
    /\ lastExec' = NoExec
    /\ IF driver = "main"
       THEN pc' = "save" /\ UNCHANGED pending
       ELSE LeaveTry(Return(configResult'))
    /\ UNCHANGED <<tcIdx, results, cfgIdx, cfgStatus, allResults, errorLog,
                   configIds, sandboxVars, inputVars, aggVars, outVars>>

\* main.ts: await saveConfigResult(configResult); return configResult
SaveConfigResult ==
    /\ pc = "save"
    /\ \/ LeaveTry(Return(configResult))
       \/ LeaveTry(Throw(SaveError))
    /\ UNCHANGED <<tcIdx, results, configResult, rt, lastExec, cfgIdx, cfgStatus,
                   allResults, errorLog, configIds, sandboxVars, inputVars, aggVars, outVars>>

\* variant of TeardownSandbox: a failed delete is swallowed
TeardownSandbox_Swallow ==
    /\ pc = "finally"
    /\ teardowns' = [teardowns EXCEPT ![cfgIdx] = @ + 1]
    /\ \/ deleted' = deleted \cup {cfgIdx} /\ UNCHANGED pending
       \/ UNCHANGED <<pending, deleted>>
    /\ pc' = "completed"
    /\ UNCHANGED <<tcIdx, results, configResult, rt, lastExec, cfgIdx, cfgStatus,
                   allResults, errorLog, configIds, created, inputVars, aggVars, outVars>>

\* finally { await teardownSandbox(daytona, sandbox) }: a throw of the finally
\* block replaces the completion of the try block
TeardownSandbox ==
    /\ pc = "finally"
    /\ teardowns' = [teardowns EXCEPT ![cfgIdx] = @ + 1]
    /\ \/ deleted' = deleted \cup {cfgIdx} /\ UNCHANGED pending
       \/ pending' = Throw(DeleteError) /\ UNCHANGED deleted
    /\ pc' = "completed"
    /\ UNCHANGED <<tcIdx, results, configResult, rt, lastExec, cfgIdx, cfgStatus,
                   allResults, errorLog, configIds, created, inputVars, aggVars, outVars>>

\* runConfig settles, and main's try/catch around it acts
CompleteRunConfig ==
    /\ pc = "completed"
    /\ IF pending.kind = "return"
       THEN PushResult(pending.value)
       ELSE CatchConfigError(pending.err)
    /\ UNCHANGED <<runVars, configIds, sandboxVars, inputVars, aggVars, outVars>>

\* variant of AfterLoop: the report is rendered as soon as a result is there
AfterLoop_Eager ==
    /\ pc = "loop"
    /\ Len(allResults) > 0
    /\ pc' = "report"
    /\ UNCHANGED <<runVars, cfgIdx, cfgStatus, allResults, errorLog, configIds,
                   sandboxVars, inputVars, aggVars, outVars>>

\* after the loop: if (allResults.length > 0) generateReport(allResults)
AfterLoop ==
    /\ pc = "loop"
    /\ cfgIdx > Len(configIds)
    /\ pc' = IF Len(allResults) > 0 THEN "report" ELSE "done"
    /\ UNCHANGED <<runVars, cfgIdx, cfgStatus, allResults, errorLog, configIds,
                   sandboxVars, inputVars, aggVars, outVars>>

\* await generateReport(allResults): the tables are printed, the report file is
\* written last; head-to-head.ts then prints its two analyses
GenerateReport ==
    /\ pc = "report"
    /\ \/ /\ pc' = "done"
          /\ printed' = IF driver = "h2h"
                        THEN [report |-> generateReport(allResults),
                              negatives |-> printNegativeAnalysis(allResults),
                              diff |-> printDiffTable(allResults)]
                        ELSE [printed EXCEPT !.report = generateReport(allResults)]
       \/ /\ pc' = "fatal"
          /\ printed' = [printed EXCEPT !.report = generateReport(allResults)]
    /\ UNCHANGED <<runVars, cfgIdx, cfgStatus, allResults, errorLog, configIds,
                   sandboxVars, inputVars, aggVars, callIn, callOut>>

Next ==
    \/ ValidateEnv
    \/ ParseArgs
    \/ CreateSandbox
    \/ SetupSandbox
    \/ UploadMonitorScript
    \/ RunTestUpload
    \/ RunTestExec
    \/ Aggregate
    \/ SaveConfigResult
    \/ TeardownSandbox
    \/ CompleteRunConfig
    \/ AfterLoop
    \/ GenerateReport

Spec == Init /\ [][Next]_vars

(***************************************************************************)
(* aggregateResults called on its own, over lists of results runTest can   *)
(* return                                                                  *)
(***************************************************************************)
MaxResults == 3

ResultSamples ==
    LET positive == HARD_TEST_CASES_SAMPLE[1]
        negative == HARD_TEST_CASES_SAMPLE[2]
        runes == [exitCode |-> 0, result |-> Text(<<InitLine, BlockStartLine("svelte-runes")>>)]
        flow == [exitCode |-> 0,
                 result |-> Text(<<InitLine, AssistantLine("sveltekit-data-flow")>>)]
        quiet == [exitCode |-> 0, result |-> Text(<<InitLine, NoiseLine>>)]
    IN { runTestTry(positive, "forced-eval", runes, 800),
         runTestTry(positive, "forced-eval", flow, 1500),
         runTestTry(negative, "forced-eval", quiet, 1501),
         runTestTry(negative, "forced-eval", runes, 2000),
         runTestCatch(positive, "forced-eval", [message |-> "socket hang up"], 35000) }

RECURSIVE SeqsUpTo(_, _)
SeqsUpTo(S, n) ==
    IF n = 0 THEN {<<>>}
    ELSE LET shorter == SeqsUpTo(S, n - 1) IN
         shorter \cup {Append(q, x) : q \in shorter, x \in S}

InitAgg ==
    /\ driver = "main"
    /\ env = REQUIRED_ENV
    /\ argConfig = NoArg
    /\ pc = "aggregate"
    /\ configIds = <<>>
    /\ cfgIdx = 1
    /\ tcIdx = 1
    /\ results = <<>>
    /\ configResult = NoConfigResult
    /\ pending = NoCompletion
    /\ allResults = <<>>
    /\ errorLog = <<>>
    /\ created = {}
    /\ teardowns = <<>>
    /\ deleted = {}
    /\ rt = "idle"
    /\ lastExec = NoExec
    /\ cfgStatus = <<>>
    /\ aggIn \in [hookConfig : Range(HOOK_CONFIGS),
                  results : SeqsUpTo(ResultSamples, MaxResults)]
    /\ aggOut = NoConfigResult
    /\ printed = NothingPrinted
    /\ callIn = NoCall
    /\ callOut = NoCall

CallAggregate ==
    /\ pc = "aggregate"
    /\ aggOut' = aggregateResults(aggIn.hookConfig, aggIn.results)
    /\ pc' = "aggregated"
    /\ UNCHANGED <<aggIn, runVars, cfgIdx, cfgStatus, allResults, errorLog, configIds,
                   sandboxVars, inputVars, outVars>>

NextAgg == CallAggregate

SpecAgg == InitAgg /\ [][NextAgg]_vars

(***************************************************************************)
(* parseSkillActivations called on its own, on texts of up to MaxLines     *)
(* lines                                                                   *)
(***************************************************************************)
MaxLines == 2

\* an input object of a tool_use block with the given skill and args members,
\* Undefined standing for a member the object does not have
FieldsOf(skill, args) ==
    [k \in {n \in {"skill", "args"} : (IF n = "skill" THEN skill ELSE args) # Undefined}
        |-> IF k = "skill" THEN skill ELSE args]

InputSamples ==
    {Obj(FieldsOf(skill, args)) :
        skill \in {Undefined, Null, Str(""), Str("svelte-runes"), Num(7)},
        args \in {Undefined, Str(""), Str("sveltekit-structure"), Num(7)}}

ToolUse(input) == Obj([type |-> Str("tool_use"), name |-> Str("Skill"), input |-> input])

\* lines the claude CLI may write, and lines that only look like them
LineSamples ==
    {BlankLine, NoiseLine, InitLine,
     JsonLine(Null), JsonLine(Num(0)), JsonLine(Str("Skill")),
     JsonLine(Arr(<<SkillBlock("svelte-runes")>>))}
    \cup
    {BlockStartLine("svelte-runes"),
     JsonLine(Obj([type |-> Str("content_block_start")])),
     JsonLine(Obj([type |-> Str("content_block_start"), content_block |-> Null])),
     JsonLine(Obj([type |-> Str("content_block_start"),
                   content_block |-> Obj([type |-> Str("tool_use"), name |-> Str("Read"),
                                          input |-> Obj([skill |-> Str("svelte-runes")])])])),
     JsonLine(Obj([type |-> Str("content_block_start"),
                   content_block |-> Obj([type |-> Str("text"), name |-> Str("Skill"),
                                          input |-> Obj([skill |-> Str("svelte-runes")])])])),
     JsonLine(Obj([type |-> Str("content_block_start"),
                   content_block |-> ToolUse(Str("svelte-runes"))]))}
    \cup
    {AssistantLine("sveltekit-structure"),
     JsonLine(Obj([role |-> Str("assistant"),
                   content |-> Arr(<<SkillBlock("svelte-runes")>>)])),
     JsonLine(Obj([type |-> Str("assistant"), message |-> Null,
                   content |-> Arr(<<SkillBlock("svelte-runes")>>)])),
     JsonLine(Obj([type |-> Str("assistant"),
                   message |-> Obj([content |-> Str("thinking")]),
                   content |-> Arr(<<SkillBlock("svelte-runes")>>)])),
     JsonLine(Obj([type |-> Str("assistant"),
                   message |-> Obj([content |->
                       Arr(<<Null, Str("text"), Num(1),
                             Obj([type |-> Str("text"), text |-> Str("Skill")]),
                             SkillBlock("sveltekit-structure")>>)])]))}
    \cup
    {JsonLine(ToolUse(input)) : input \in InputSamples}
    \cup
    {JsonLine(ToolUse(Null)),
     JsonLine(Obj([type |-> Str("tool_use"), name |-> Str("Skill")]))}
    \cup
    {JsonLine(Obj([type |-> Str("message"),
                   message |-> Obj([content |-> Arr(<<SkillBlock("sveltekit-structure")>>)])])),
     JsonLine(Obj([type |-> Str("message"), message |-> Null])),
     JsonLine(Obj([type |-> Str("message"), message |-> Str("text")])),
     JsonLine(Obj([type |-> Str("message"), role |-> Str("assistant"),
                   message |-> Obj([content |-> Arr(<<SkillBlock("svelte-runes")>>)])]))}

\* the driver's variables while a function is called on its own
NoDriverRun ==
    /\ driver = "main"
    /\ env = REQUIRED_ENV
    /\ argConfig = NoArg
    /\ configIds = <<>>
    /\ cfgIdx = 1
    /\ tcIdx = 1
    /\ results = <<>>
    /\ configResult = NoConfigResult
    /\ pending = NoCompletion
    /\ allResults = <<>>
    /\ errorLog = <<>>
    /\ created = {}
    /\ teardowns = <<>>
    /\ deleted = {}
    /\ rt = "idle"
    /\ lastExec = NoExec
    /\ cfgStatus = <<>>
    /\ aggIn = NoCall
    /\ aggOut = NoConfigResult
    /\ printed = NothingPrinted

\* stdout.split('\n') has at least one element
InitParse ==
    /\ NoDriverRun
    /\ pc = "parse"
    /\ callIn \in [kind : {"parse"},
                   stdout : SeqsUpTo(LineSamples, MaxLines) \ {<<>>}]
    /\ callOut = NoCall

CallParse ==
    /\ pc = "parse"
    /\ callOut' = IF ParseThrows(callIn.stdout)
                  THEN [kind |-> "threw"]
                  ELSE [kind |-> "returned", value |-> parseSkillActivations(callIn.stdout)]
    /\ pc' = "parsed"
    /\ UNCHANGED <<runVars, cfgIdx, cfgStatus, allResults, errorLog, configIds,
                   sandboxVars, inputVars, aggVars, printed, callIn>>

NextParse == CallParse

SpecParse == InitParse /\ [][NextParse]_vars

(***************************************************************************)
(* head-to-head.ts: the two analyses called on their own                   *)
(***************************************************************************)
\* the TestResults runTest can return for a test case
ResultOptions(testCase, hookConfigId) ==
    {runTestTry(testCase, hookConfigId, response, 1500) :
        response \in {[exitCode |-> 0,
                       result |-> Text(<<InitLine, BlockStartLine("svelte-runes")>>)],
                      [exitCode |-> 0,
                       result |-> Text(<<InitLine, AssistantLine("sveltekit-data-flow")>>)],
                      [exitCode |-> 0, result |-> Text(<<InitLine, NoiseLine>>)]}}
    \cup {runTestCatch(testCase, hookConfigId, [message |-> "Command execution timed out"],
                       35000)}

\* result lists over the first n cases of HARD_TEST_CASES, in battery order,
\* each case with one result or none
RECURSIVE ResultLists(_, _)
ResultLists(hookConfigId, n) ==
    IF n = 0 THEN {<<>>}
    ELSE {l \o r : l \in ResultLists(hookConfigId, n - 1),
                   r \in {<<>>} \cup {<<x>> : x \in ResultOptions(HARD_TEST_CASES[n],
                                                                 hookConfigId)}}

ConfigResultsOf(hookConfigId) ==
    {aggregateResults(getHookConfig(hookConfigId), rs) :
        rs \in ResultLists(hookConfigId, Len(HARD_TEST_CASES))}

InitAnalysis ==
    /\ NoDriverRun
    /\ pc = "analysis"
    /\ callIn \in [kind : {"analysis"},
                   allResults : {<<a>> : a \in ConfigResultsOf(CONFIGS_TO_TEST[1])}
                                \cup {<<a, b>> : a \in ConfigResultsOf(CONFIGS_TO_TEST[1]),
                                                 b \in ConfigResultsOf(CONFIGS_TO_TEST[2])}]
    /\ callOut = NoCall

CallPrintNegativeAnalysis ==
    /\ pc = "analysis"
    /\ printed' = [printed EXCEPT !.negatives = printNegativeAnalysis(callIn.allResults)]
    /\ pc' = "negativesPrinted"
    /\ UNCHANGED <<runVars, cfgIdx, cfgStatus, allResults, errorLog, configIds,
                   sandboxVars, inputVars, aggVars, callIn, callOut>>

CallPrintDiffTable ==
    /\ pc = "negativesPrinted"
    /\ printed' = [printed EXCEPT !.diff = printDiffTable(callIn.allResults)]
    /\ pc' = "analysed"
    /\ UNCHANGED <<runVars, cfgIdx, cfgStatus, allResults, errorLog, configIds,
                   sandboxVars, inputVars, aggVars, callIn, callOut>>

\* variant of resultIcon: a negative case judged by its correct flag
resultIcon_ByCorrect(r) ==
    IF r.expected_skill = NONE THEN (IF r.correct THEN "TN" ELSE "FP")
    ELSE IF r.correct THEN "Y"
    ELSE IF r.activated THEN "~"
    ELSE "N"

\* head-to-head.ts resultIcon
resultIcon(r) ==
    IF r.expected_skill = NONE THEN (IF r.activated THEN "FP" ELSE "TN")
    ELSE IF r.correct THEN "Y"
    ELSE IF r.activated THEN "~"
    ELSE "N"

\* the icons runConfig logs for the results of each configuration
CallResultIcon ==
    /\ pc = "analysed"
    /\ callOut' = [kind |-> "icons",
                   icons |-> [i \in 1..Len(callIn.allResults) |->
                                [j \in 1..Len(callIn.allResults[i].results) |->
                                    resultIcon(callIn.allResults[i].results[j])]]]
    /\ pc' = "iconsLogged"
    /\ UNCHANGED <<runVars, cfgIdx, cfgStatus, allResults, errorLog, configIds,
                   sandboxVars, inputVars, aggVars, printed, callIn>>

NextAnalysis == CallPrintNegativeAnalysis \/ CallPrintDiffTable \/ CallResultIcon

SpecAnalysis == InitAnalysis /\ [][NextAnalysis]_vars

(***************************************************************************)
(* config.ts: the catalog functions called on their own                    *)
(***************************************************************************)
\* the sequences obtained from seq by leaving entries out
RECURSIVE SubCatalogs(_, _)
SubCatalogs(seq, n) ==
    IF n = 0 THEN {<<>>}
    ELSE {c \o e : c \in SubCatalogs(seq, n - 1), e \in {<<>>, <<seq[n]>>}}

\* the ids of the catalog and strings that are not ids of it
IdSamples ==
    {ALL_HOOK_CONFIGS[i].id : i \in 1..Len(ALL_HOOK_CONFIGS)}
    \cup {"bogus", "", "None", "forced_eval", "llm-eval "}

InitCatalog ==
    /\ NoDriverRun
    /\ pc = "catalog"
    /\ callIn \in [kind : {"catalog"},
                   catalog : SubCatalogs(ALL_HOOK_CONFIGS, Len(ALL_HOOK_CONFIGS)),
                   id : IdSamples]
    /\ callOut = [config |-> NoCall, ids |-> NoCall]

CallGetHookConfig ==
    /\ pc = "catalog"
    /\ callOut' = [callOut EXCEPT !.config = getHookConfigOf(callIn.catalog, callIn.id)]
    /\ pc' = "gotConfig"
    /\ UNCHANGED <<runVars, cfgIdx, cfgStatus, allResults, errorLog, configIds,
                   sandboxVars, inputVars, aggVars, printed, callIn>>

CallGetConfigIds ==
    /\ pc = "gotConfig"
    /\ callOut' = [callOut EXCEPT !.ids = [kind |-> "returned",
                                           value |-> getConfigIds(callIn.catalog)]]
    /\ pc' = "gotIds"
    /\ UNCHANGED <<runVars, cfgIdx, cfgStatus, allResults, errorLog, configIds,
                   sandboxVars, inputVars, aggVars, printed, callIn>>

NextCatalog == CallGetHookConfig \/ CallGetConfigIds

SpecCatalog == InitCatalog /\ [][NextCatalog]_vars

(***************************************************************************)
(* sandbox.ts setupSandbox, step by step                                   *)
(***************************************************************************)
\* one call on the sandbox that has completed
Step(op, target) == [op |-> op, target |-> target]

\* the call completed: go on at `next`
SetupDid(steps, next) ==
    /\ callOut' = [callOut EXCEPT !.log = @ \o steps]
    /\ pc' = next

\* a call rejected, or a local tar or read threw, after `steps` had completed
SetupThrew(steps) ==
    /\ callOut' = [callOut EXCEPT !.log = @ \o steps, !.status = "threw"]
    /\ pc' = "setup:done"

setupUnchanged == <<runVars, cfgIdx, cfgStatus, allResults, errorLog, configIds,
                    sandboxVars, inputVars, aggVars, printed, callIn>>

InitSetup ==
    /\ NoDriverRun
    /\ pc = "setup:mkdir"
    /\ callIn \in [kind : {"setup"},
                   config : Range(ALL_HOOK_CONFIGS),
                   skillsDir : BOOLEAN,
                   hooksDir : BOOLEAN]
    /\ callOut = [status |-> "running", log |-> <<>>, fileIdx |-> 1]

\* mkdir -p .claude/skills .claude/hooks
SetupMkdir ==
    /\ pc = "setup:mkdir"
    /\ \/ SetupDid(<<Step("mkdir", <<"dirs">>)>>, "setup:skills")
       \/ SetupThrew(<<>>)
    /\ UNCHANGED setupUnchanged

\* variant of SetupSkillsBundle: a missing skills directory is an error
SetupSkillsBundle_Required ==
    /\ pc = "setup:skills"
    /\ IF callIn.skillsDir
       THEN \/ SetupDid(<<Step("upload", <<"skills">>), Step("extract", <<"skills">>)>>, "setup:hooks")
            \/ SetupThrew(<<>>)
            \/ SetupThrew(<<Step("upload", <<"skills">>)>>)
       ELSE SetupThrew(<<>>)
    /\ UNCHANGED setupUnchanged

\* if (existsSync(SKILLS_DIR)) { tar, uploadFile, tar -xzf }
SetupSkillsBundle ==
    /\ pc = "setup:skills"
    /\ IF callIn.skillsDir
       THEN \/ SetupDid(<<Step("upload", <<"skills">>), Step("extract", <<"skills">>)>>, "setup:hooks")
            \/ SetupThrew(<<>>)
            \/ SetupThrew(<<Step("upload", <<"skills">>)>>)
       ELSE SetupDid(<<>>, "setup:hooks")
    /\ UNCHANGED setupUnchanged

\* if (existsSync(HOOKS_LOCAL_DIR)) { tar, uploadFile, tar -xzf }
SetupHooksBundle ==
    /\ pc = "setup:hooks"
    /\ IF callIn.hooksDir
       THEN \/ SetupDid(<<Step("upload", <<"hooks">>), Step("extract", <<"hooks">>)>>, "setup:files")
            \/ SetupThrew(<<>>)
            \/ SetupThrew(<<Step("upload", <<"hooks">>)>>)
       ELSE SetupDid(<<>>, "setup:files")
    /\ UNCHANGED setupUnchanged

\* one round of the loop over config.extra_files: readFileSync, uploadFile, chmod +x
SetupExtraFile ==
    /\ pc = "setup:files"
    /\ callOut.fileIdx <= callIn.config.extra_files
    /\ \/ /\ callOut' = [callOut EXCEPT
                            !.log = @ \o <<Step("upload", <<"file", callOut.fileIdx>>),
                                           Step("chmod", <<"file", callOut.fileIdx>>)>>,
                            !.fileIdx = @ + 1]
          /\ pc' = pc
       \/ SetupThrew(<<>>)
       \/ SetupThrew(<<Step("upload", <<"file", callOut.fileIdx>>)>>)
    /\ UNCHANGED setupUnchanged

\* the loop is over: uploadFile(settingsContent, settings.json), and return
SetupSettings ==
    /\ pc = "setup:files"
    /\ callOut.fileIdx > callIn.config.extra_files
    /\ \/ /\ callOut' = [callOut EXCEPT !.log = @ \o <<Step("upload", <<"settings.json">>)>>,
                                          !.status = "returned"]
          /\ pc' = "setup:done"
       \/ SetupThrew(<<>>)
    /\ UNCHANGED setupUnchanged

NextSetup ==
    \/ SetupMkdir
    \/ SetupSkillsBundle
    \/ SetupHooksBundle
    \/ SetupExtraFile
    \/ SetupSettings

SpecSetup == InitSetup /\ [][NextSetup]_vars

(***************************************************************************)
(* monitor-claude.sh run by runTest, with a clock in seconds               *)
(***************************************************************************)
EARLY_EXIT_TIMEOUT_SEC == 20

\* TIMEOUT="${2:-20}"
DEFAULT_TIMEOUT_SEC == 20

\* timeout -k 5
KILL_GRACE_SEC == 5

\* EARLY_EXIT_TIMEOUT_SEC + 15
WAIT_SLACK_SEC == 15

\* lines the target process writes before it ends
MaxCaptured == 2

\* variant of WaitBudget: the caller waits as long as the script's timeout
WaitBudget_NoSlack == EARLY_EXIT_TIMEOUT_SEC

\* the timeout runTest passes to executeCommand
WaitBudget == EARLY_EXIT_TIMEOUT_SEC + WAIT_SLACK_SEC

\* the script's TIMEOUT: its second argument, 20 without one
ScriptTimeout == IF callIn.timeoutArg THEN EARLY_EXIT_TIMEOUT_SEC ELSE DEFAULT_TIMEOUT_SEC

NotCat == [printed |-> FALSE]

monitorUnchanged == <<runVars, cfgIdx, cfgStatus, allResults, errorLog, configIds,
                      sandboxVars, inputVars, aggVars, printed, callIn>>

InitMonitor ==
    /\ NoDriverRun
    /\ pc = "monitor:start"
    /\ callIn \in [kind : {"monitor"}, queryFile : BOOLEAN, timeoutArg : BOOLEAN]
    /\ callOut = [clock |-> 0, target |-> "notStarted", captured |-> 0, stdout |-> NotCat,
                  outputFile |-> FALSE, queryFile |-> callIn.queryFile, exitCode |-> -1]

\* if [ ! -f "$QUERY_FILE" ]: exit 1; otherwise the target is started with its
\* output redirected to $OUTPUT
MonitorStart ==
    /\ pc = "monitor:start"
    /\ IF ~callIn.queryFile
       THEN /\ callOut' = [callOut EXCEPT !.exitCode = 1]
            /\ pc' = "monitor:exited"
       ELSE /\ callOut' = [callOut EXCEPT !.target = "running", !.outputFile = TRUE]
            /\ pc' = "monitor:wait"
    /\ UNCHANGED monitorUnchanged

TargetAlive == callOut.target \in {"running", "terminating"}

\* the target writes a line to its stdout
TargetWrites ==
    /\ pc = "monitor:wait"
    /\ TargetAlive
    /\ callOut.captured < MaxCaptured
    /\ callOut' = [callOut EXCEPT !.captured = @ + 1]
    /\ UNCHANGED <<pc, monitorUnchanged>>

\* the target exits by itself, or on the SIGTERM it has received
TargetExits ==
    /\ pc = "monitor:wait"
    /\ TargetAlive
    /\ callOut' = [callOut EXCEPT !.target = "exited"]
    /\ UNCHANGED <<pc, monitorUnchanged>>

\* a second passes; timeout(1) lets none pass beyond its two deadlines
Tick ==
    /\ pc = "monitor:wait"
    /\ \/ callOut.target = "running" /\ callOut.clock < ScriptTimeout
       \/ callOut.target = "terminating" /\ callOut.clock < ScriptTimeout + KILL_GRACE_SEC
    /\ callOut' = [callOut EXCEPT !.clock = @ + 1]
    /\ UNCHANGED <<pc, monitorUnchanged>>

\* timeout(1) sends SIGTERM after TIMEOUT seconds
SendTerm ==
    /\ pc = "monitor:wait"
    /\ callOut.target = "running"
    /\ callOut.clock = ScriptTimeout
    /\ callOut' = [callOut EXCEPT !.target = "terminating"]
    /\ UNCHANGED <<pc, monitorUnchanged>>

\* -k 5: SIGKILL five seconds after the SIGTERM
SendKill ==
    /\ pc = "monitor:wait"
    /\ callOut.target = "terminating"
    /\ callOut.clock = ScriptTimeout + KILL_GRACE_SEC
    /\ callOut' = [callOut EXCEPT !.target = "killed"]
    /\ UNCHANGED <<pc, monitorUnchanged>>

\* variant of CatOutput: the output is printed only when the target exited by itself
CatOutput_UnlessKilled ==
    /\ pc = "monitor:wait"
    /\ callOut.target \in {"exited", "killed"}
    /\ callOut' = [callOut EXCEPT
                      !.stdout = IF callOut.target = "killed" THEN @
                                 ELSE [printed |-> TRUE, lines |-> callOut.captured]]
    /\ pc' = "monitor:rm"
    /\ UNCHANGED monitorUnchanged

\* timeout(1) has returned: cat "$OUTPUT"
CatOutput ==
    /\ pc = "monitor:wait"
    /\ callOut.target \in {"exited", "killed"}
    /\ callOut' = [callOut EXCEPT !.stdout = [printed |-> TRUE, lines |-> callOut.captured]]
    /\ pc' = "monitor:rm"
    /\ UNCHANGED monitorUnchanged

\* rm -f "$OUTPUT" "$QUERY_FILE", and the script ends with the status of rm
RemoveFiles ==
    /\ pc = "monitor:rm"
    /\ callOut' = [callOut EXCEPT !.outputFile = FALSE, !.queryFile = FALSE, !.exitCode = 0]
    /\ pc' = "monitor:exited"
    /\ UNCHANGED monitorUnchanged

NextMonitor ==
    \/ MonitorStart
    \/ TargetWrites
    \/ TargetExits
    \/ Tick
    \/ SendTerm
    \/ SendKill
    \/ CatOutput
    \/ RemoveFiles

SpecMonitor == InitMonitor /\ [][NextMonitor]_vars

\* the script and the target keep running: bash and timeout(1) are not stopped
SpecMonitorLive == SpecMonitor /\ WF_vars(NextMonitor)

(***************************************************************************)
(* test_skill_activation called on its own, on message streams of up to    *)
(* MaxMessages messages of up to MaxBlocks content blocks                  *)
(***************************************************************************)
MaxMessages == 2
MaxBlocks == 2

DEFAULT_MODEL == "claude-sonnet-4-5-20250929"

\* String(v), for the primitive values and plain objects a tool input holds
JSString(v) ==
    CASE v.t = "string" -> v.s
      [] v.t = "number" -> ToString(v.n)
      [] v.t = "null" -> "null"
      [] v.t = "undefined" -> "undefined"
      [] OTHER -> "[object Object]"

\* test cases that pass activation_test_schema
ActivationTestCases ==
    {[id |-> "act-1", query |-> "How do I use $state?",
      expected_skill |-> "svelte5-runes", should_activate |-> TRUE, model |-> Undefined],
     [id |-> "act-2", query |-> "How do I use $state?",
      expected_skill |-> "svelte5-runes", should_activate |-> FALSE, model |-> Undefined],
     [id |-> "act-3", query |-> "What is a load function?",
      expected_skill |-> "sveltekit-data-flow", should_activate |-> TRUE,
      model |-> Str("claude-haiku-4-5")]}

\* content blocks of an assistant message
TextBlock == Obj([type |-> Str("text"), text |-> Str("Let me check.")])

ToolUseBlock(name, input) ==
    Obj([type |-> Str("tool_use"), name |-> Str(name), input |-> input])

BlockSamples ==
    {TextBlock,
     ToolUseBlock("Read", Obj([file_path |-> Str("SKILL.md")])),
     ToolUseBlock("Skill", Obj([skill |-> Str("svelte5-runes")])),
     ToolUseBlock("Skill", Obj([skill |-> Str("sveltekit-data-flow")])),
     ToolUseBlock("Skill", Obj([skill |-> Str("")])),
     ToolUseBlock("Skill", Obj([skill |-> Num(0)])),
     ToolUseBlock("Skill", Obj([command |-> Str("svelte5-runes")]))}

AssistantMessage(content) ==
    Obj([type |-> Str("assistant"), message |-> Obj([content |-> content])])

\* messages the query yields
MessageSamples ==
    {Obj([type |-> Str("system")]), AssistantMessage(Str("Let me check."))}
    \cup {AssistantMessage(Arr(blocks)) : blocks \in SeqsUpTo(BlockSamples, MaxBlocks)}

\* how the stream ends after its messages: it completes, or the iteration
\* rejects with an Error or with a value that is no Error
StreamEnds ==
    {[thrown |-> FALSE, isError |-> FALSE, message |-> ""],
     [thrown |-> TRUE, isError |-> TRUE, message |-> "Claude Code process exited with code 1"],
     [thrown |-> TRUE, isError |-> FALSE, message |-> "aborted"]}

\* name in v, for an object or an array without that member
In(name, v) == v.t = "object" /\ name \in DOMAIN v.f

\* block.type === 'tool_use'
IsToolUse(block) == Prop(block, "type") = Str("tool_use")

\* the condition under which a block sets activated_skill
NamesSkill(block) ==
    /\ IsToolUse(block)
    /\ Prop(block, "name") = Str("Skill")
    /\ TypeofObject(Prop(block, "input"))
    /\ Prop(block, "input") # Null
    /\ In("skill", Prop(block, "input"))

\* for (const block of content) { ... }, from block i on
RECURSIVE ScanBlocks(_, _, _, _)
ScanBlocks(blocks, i, skill, logs) ==
    IF i > Len(blocks) THEN [activated_skill |-> skill, logs |-> logs]
    ELSE LET block == blocks[i]
             logs1 == IF IsToolUse(block)
                      THEN Append(logs, <<"Tool use detected", JSString(Prop(block, "name"))>>)
                      ELSE logs
             name == JSString(Prop(Prop(block, "input"), "skill"))
         IN IF NamesSkill(block)
            THEN [activated_skill |-> Str(name),
                  logs |-> Append(logs1, <<"Skill activated", name>>)]
            ELSE ScanBlocks(blocks, i + 1, skill, logs1)

\* the body of for await (const message of query_result), up to its last line
ProcessMessage(message, skill, logs) ==
    LET logs1 == Append(logs, <<"Message type", JSString(Prop(message, "type"))>>)
        content == Prop(Prop(message, "message"), "content")
    IN IF Prop(message, "type") = Str("assistant") /\ content.t = "array"
       THEN ScanBlocks(content.items, 1, skill, logs1)
       ELSE [activated_skill |-> skill, logs |-> logs1]

\* if (activated_skill) break, inside the assistant branch
LeavesLoop(message, skill) ==
    Prop(message, "type") = Str("assistant") /\ Truthy(skill)

activationUnchanged == <<runVars, cfgIdx, cfgStatus, allResults, errorLog, configIds,
                         sandboxVars, inputVars, aggVars, printed, callIn>>

InitActivation ==
    /\ NoDriverRun
    /\ pc = "activation:start"
    /\ callIn \in [kind : {"activation"},
                   test_case : ActivationTestCases,
                   messages : SeqsUpTo(MessageSamples, MaxMessages),
                   end : StreamEnds]
    /\ callOut = [kind |-> "activation", consumed |-> 0, activated_skill |-> Null,
                  logs |-> <<>>, caught |-> FALSE, result |-> NoCall]

\* the logs before the loop, and the call of query
StartQuery ==
    /\ pc = "activation:start"
    /\ LET tc == callIn.test_case
           model == IF Truthy(tc.model) THEN tc.model.s ELSE DEFAULT_MODEL
       IN callOut' = [callOut EXCEPT !.logs = <<<<"Starting", tc.id>>,
                                                <<"Using model", model>>,
                                                <<"Query", tc.query>>,
                                                <<"Calling Claude Agent SDK...">>,
                                                <<"Processing messages...">>>>]
    /\ pc' = "activation:messages"
    /\ UNCHANGED activationUnchanged

\* one round of the for await loop
NextMessage ==
    /\ pc = "activation:messages"
    /\ callOut.consumed < Len(callIn.messages)
    /\ LET message == callIn.messages[callOut.consumed + 1]
           after == ProcessMessage(message, callOut.activated_skill, callOut.logs)
       IN /\ callOut' = [callOut EXCEPT !.consumed = @ + 1,
                                        !.activated_skill = after.activated_skill,
                                        !.logs = after.logs]
          /\ pc' = IF LeavesLoop(message, after.activated_skill)
                   THEN "activation:passed"
                   ELSE "activation:messages"
    /\ UNCHANGED activationUnchanged

\* the stream is done
StreamCompletes ==
    /\ pc = "activation:messages"
    /\ callOut.consumed = Len(callIn.messages)
    /\ ~callIn.end.thrown
    /\ pc' = "activation:passed"
    /\ UNCHANGED <<callOut, activationUnchanged>>

\* passed is computed and the result returned
ReturnResult ==
    /\ pc = "activation:passed"
    /\ LET tc == callIn.test_case
           passed == callOut.activated_skill = Str(tc.expected_skill) /\ tc.should_activate
           logs == Append(callOut.logs,
                          <<"Result", tc.id, tc.expected_skill,
                            JSString(callOut.activated_skill), ToString(passed)>>)
       IN callOut' = [callOut EXCEPT
                         !.logs = logs,
                         !.result = [test_id |-> tc.id, passed |-> passed,
                                     expected_skill |-> tc.expected_skill,
                                     activated_skill |-> callOut.activated_skill,
                                     error |-> NoError, logs |-> logs]]
    /\ pc' = "activation:returned"
    /\ UNCHANGED activationUnchanged

\* the iteration rejects: the catch branch returns
CatchQueryError ==
    /\ pc = "activation:messages"
    /\ callOut.consumed = Len(callIn.messages)
    /\ callIn.end.thrown
    /\ LET tc == callIn.test_case
           errorMsg == IF callIn.end.isError THEN callIn.end.message ELSE "Unknown error"
           logs == Append(callOut.logs, <<"Error", tc.id, errorMsg>>)
       IN callOut' = [callOut EXCEPT
                         !.caught = TRUE,
                         !.logs = logs,
                         !.result = [test_id |-> tc.id, passed |-> FALSE,
                                     expected_skill |-> tc.expected_skill,
                                     activated_skill |-> Null,
                                     error |-> errorMsg, logs |-> logs]]
    /\ pc' = "activation:returned"
    /\ UNCHANGED activationUnchanged

NextActivation ==
    StartQuery \/ NextMessage \/ StreamCompletes \/ ReturnResult \/ CatchQueryError

SpecActivation == InitActivation /\ [][NextActivation]_vars

(***************************************************************************)
(* Properties                                                              *)
(***************************************************************************)
\* every TestResult runTest has returned in this run of the driver
ReturnedResults ==
    Range(results) \cup UNION {Range(allResults[i].results) : i \in 1..Len(allResults)}

\* every ConfigResult aggregateResults has returned in this run of the driver
Aggregated ==
    Range(allResults) \cup (IF configResult = NoConfigResult THEN {} ELSE {configResult})

\* the result of the runTest invocation that has just returned, and its test case
LastResult == results[Len(results)]
LastTestCase == Battery[Len(results)]

\* C1: runTest never propagates an exception to its caller, whichever sandbox
\* operation fails (the claim as stated; the query-file upload is outside the try)
C1_RunTestNeverThrows == rt # "threw"

\* C2: a handle createSandbox returned is torn down exactly once, whatever the
\* steps after it did: never twice, and once by the time runConfig has settled;
\* a configuration whose createSandbox failed gets no teardown
C2_TeardownExactlyOnce ==
    \A h \in 1..Len(configIds) :
        /\ h \notin created => (h \notin DOMAIN teardowns \/ teardowns[h] = 0)
        /\ h \in created =>
              /\ teardowns[h] <= 1
              /\ (h < cfgIdx \/ pc = "completed") => teardowns[h] = 1

\* C2 witness: the first configuration's createSandbox failed, the second one's
\* setup threw and its sandbox has been torn down
C2_Witness ==
    /\ pc = "completed"
    /\ cfgIdx = 2
    /\ 1 \notin created
    /\ 2 \in created
    /\ results = <<>>
    /\ teardowns[2] = 1

\* a step in which runConfig fails: createSandbox throws, or runConfig settles
\* with an exception
ConfigRunFails ==
    \/ pc = "loop" /\ cfgIdx <= Len(configIds) /\ pc' # "setup"
    \/ pc = "completed" /\ pending.kind = "throw"

\* C3: when a configuration's run fails the driver logs the error, adds no
\* ConfigResult, keeps the accumulated ones and goes on to the next configuration;
\* the loop is left only after every configuration has been run
C3_FailureIsolated ==
    [][ /\ ConfigRunFails =>
              /\ Len(errorLog') = Len(errorLog) + 1
              /\ errorLog'[Len(errorLog')].config = configIds[cfgIdx]
              /\ allResults' = allResults
              /\ cfgIdx' = cfgIdx + 1
              /\ pc' = "loop"
        /\ (pc = "loop" /\ pc' \in {"report", "done"}) =>
              /\ cfgIdx > Len(configIds)
              /\ \A i \in 1..Len(configIds) : cfgStatus[i] \in {"failed", "succeeded"}
      ]_vars

\* C3 witness: the first configuration succeeded, the second failed, the loop is
\* over and the first one's ConfigResult is still the only one accumulated
C3_Witness ==
    /\ pc = "done" \/ pc = "report"
    /\ cfgStatus = <<"succeeded", "failed">>
    /\ Len(allResults) = 1
    /\ Len(errorLog) = 1

\* C4: when executeCommand throws, runTest returns the failed TestResult built
\* from its inputs and the error's message, and the driver is at the next test case
C4_ExecThrowIsCaptured ==
    (rt = "returned" /\ lastExec.kind = "threw") =>
        /\ LastResult = [test_id |-> LastTestCase.id,
                         hook_config |-> ConfigId,
                         query |-> LastTestCase.query,
                         expected_skill |-> LastTestCase.expected_skill,
                         activated_skills |-> <<>>,
                         activated |-> FALSE,
                         correct |-> FALSE,
                         latency_ms |-> LastResult.latency_ms,
                         error |-> lastExec.err.message]
        /\ pc = "tests"
        /\ tcIdx = Len(results) + 1
        /\ pending = NoCompletion

\* C4 witness: the first test case's command timed out and a test case is left to run
C4_Witness ==
    /\ rt = "returned"
    /\ lastExec.kind = "threw"
    /\ lastExec.err.message = "Command execution timed out"
    /\ tcIdx <= Len(Battery)

\* C5: a monitored command that completes with a non-zero exit status gives a
\* failed TestResult with the failure recorded (the claim as stated; runTest
\* never reads the exit status)
C5_NonZeroExitIsFailure ==
    (rt = "returned" /\ lastExec.kind = "response" /\ lastExec.response.exitCode # 0) =>
        /\ LastResult.activated_skills = <<>>
        /\ ~LastResult.activated
        /\ ~LastResult.correct
        /\ LastResult.error # NoError

\* C6: activated holds exactly when the activation set is non-empty, on both paths
C6_ActivatedIffNonEmpty ==
    \A r \in ReturnedResults : r.activated = (r.activated_skills # <<>>)

\* C6 witness: one battery gave a success-path result with an activation and a
\* failure-path result
C6_Witness ==
    /\ \E r \in Range(results) : r.activated_skills # <<>> /\ r.error = NoError
    /\ \E r \in Range(results) : r.error # NoError

\* C7: for a positive test case, correct holds exactly when the expected skill is
\* among the activated ones
C7_CorrectIffExpectedActivated ==
    \A r \in ReturnedResults :
        r.expected_skill # NONE =>
            (r.correct <=> \E i \in 1..Len(r.activated_skills) :
                                r.activated_skills[i] = r.expected_skill)

\* C7 witness: a positive case with the expected skill activated, and a positive
\* case with only another skill activated
C7_Witness ==
    /\ \E r \in ReturnedResults : r.expected_skill # NONE /\ r.correct
    /\ \E r \in ReturnedResults :
          r.expected_skill # NONE /\ r.activated /\ ~r.correct

\* C8: for a negative test case, correct holds exactly when nothing activated
\* (the claim as stated; runTest looks 'none' up in the activation set)
C8_NegativeCorrectIffNotActivated ==
    \A r \in ReturnedResults : r.expected_skill = NONE => (r.correct <=> ~r.activated)

RECURSIVE LatencyOver(_, _)
LatencyOver(rs, S) ==
    IF S = {} THEN 0
    ELSE LET i == CHOOSE j \in S : TRUE IN rs[i].latency_ms + LatencyOver(rs, S \ {i})

\* the number q equals n / total
IsQuotient(q, n, total) == q.den > 0 /\ q.num * total = n * q.den

\* C10: aggregateResults counts the list, the activated and the correct results,
\* gives the two rates and the mean latency as quotients by the total (0 for the
\* empty list), copies the configuration id and returns the list as it was
C10_AggregateIsFold ==
    aggOut # NoConfigResult =>
        LET rs == aggIn.results
            total == Len(rs)
            nAct == Cardinality({i \in 1..total : rs[i].activated})
            nCor == Cardinality({i \in 1..total : rs[i].correct})
        IN /\ aggOut.total_tests = total
           /\ aggOut.activated_count = nAct
           /\ aggOut.correct_count = nCor
           /\ aggOut.hook_config = aggIn.hookConfig.id
           /\ aggOut.results = rs
           /\ IF total = 0
              THEN /\ aggOut.activation_rate = Zero
                   /\ aggOut.accuracy_rate = Zero
                   /\ aggOut.avg_latency_ms = Zero
              ELSE /\ IsQuotient(aggOut.activation_rate, nAct, total)
                   /\ IsQuotient(aggOut.accuracy_rate, nCor, total)
                   /\ IsQuotient(aggOut.avg_latency_ms, LatencyOver(rs, 1..total), total)

\* C10 witness: three results, two activated, one correct, a mean that is no integer
C10_Witness ==
    /\ aggOut # NoConfigResult
    /\ Len(aggIn.results) = 3
    /\ aggOut.activated_count = 2
    /\ aggOut.correct_count = 1
    /\ aggOut.avg_latency_ms.den = 3
    /\ aggOut.hook_config = "llm-eval"

(***************************************************************************)
(* The activation parser                                                   *)
(***************************************************************************)
Parsed == pc = "parsed"

UnusableLine(line) == line.kind = "blank" \/ ~JSONParse(line).ok

\* C11: parseSkillActivations returns for every text; a text made only of blank
\* and non-JSON lines yields the empty set; and the names returned for a text
\* are the union of the names returned for each of its lines alone
C11_ParserTotalAndLinewise ==
    Parsed =>
        /\ callOut.kind = "returned"
        /\ (\A i \in 1..Len(callIn.stdout) : UnusableLine(callIn.stdout[i]))
               => callOut.value = <<>>
        /\ Range(callOut.value) =
               UNION {Range(parseSkillActivations(<<callIn.stdout[i]>>)) :
                         i \in 1..Len(callIn.stdout)}

\* a line JSON.parse rejects, followed by a line that activates a capability
C11_Witness ==
    /\ Parsed
    /\ callIn.stdout = <<NoiseLine, BlockStartLine("svelte-runes")>>
    /\ callOut = [kind |-> "returned", value |-> <<"svelte-runes">>]


ItemsOf(v) == IF v.t = "array" THEN Range(v.items) ELSE {}

IsAssistant(obj) == Prop(obj, "type") = Str("assistant") \/ Prop(obj, "role") = Str("assistant")

\* the blocks of a parsed object in shapes (a), (c) and (d)
BlocksOutsideAssistant(obj) ==
    (IF Prop(obj, "type") = Str("content_block_start") THEN {Prop(obj, "content_block")} ELSE {})
    \cup (IF Prop(obj, "type") = Str("tool_use") THEN {obj} ELSE {})
    \cup (IF Prop(obj, "type") = Str("message")
          THEN ItemsOf(Prop(Prop(obj, "message"), "content")) ELSE {})

\* shape (b), the object's own content array counting whatever the nested message holds
BlocksEitherContent(obj) ==
    BlocksOutsideAssistant(obj)
    \cup (IF IsAssistant(obj)
          THEN ItemsOf(Prop(Prop(obj, "message"), "content")) \cup ItemsOf(Prop(obj, "content"))
          ELSE {})

\* shape (b), the object's own content array counting only when the nested
\* message has no content (absent or null)
BlocksFallbackContent(obj) ==
    BlocksOutsideAssistant(obj)
    \cup (IF IsAssistant(obj)
          THEN IF Prop(Prop(obj, "message"), "content").t \in {"undefined", "null"}
               THEN ItemsOf(Prop(obj, "content"))
               ELSE ItemsOf(Prop(Prop(obj, "message"), "content"))
          ELSE {})

\* the names input.skill of the Skill tool_use blocks among blocks
SkillNamesOf(blocks) ==
    {Prop(Prop(b, "input"), "skill").s :
        b \in {x \in blocks : /\ IsSkillToolUse(x)
                               /\ Prop(Prop(x, "input"), "skill").t = "string"
                               /\ Prop(Prop(x, "input"), "skill") # Str("")}}

IsJsonObject(line) == line.kind = "json" /\ line.val.t = "object"

ExampleLinesParse ==
    /\ callIn.stdout = <<BlockStartLine("svelte-runes")>> => callOut.value = <<"svelte-runes">>
    /\ callIn.stdout = <<AssistantLine("sveltekit-structure")>>
          => callOut.value = <<"sveltekit-structure">>

\* C12 as stated: every Skill block with a non-empty string input.skill in any of
\* the four shapes is in the result, shape (b) reading the message content array
\* or the object's own content array; the two example lines yield exactly their name
C12_EveryShapeIsFound ==
    Parsed =>
        /\ callOut.kind = "returned"
        /\ \A i \in 1..Len(callIn.stdout) :
              IsJsonObject(callIn.stdout[i]) =>
                  SkillNamesOf(BlocksEitherContent(callIn.stdout[i].val))
                      \subseteq Range(callOut.value)
        /\ ExampleLinesParse

\* C12 amended: the same, with the own content array of an assistant object read
\* only when its nested message has no content
C12_EveryShapeIsFound_Fallback ==
    Parsed =>
        /\ callOut.kind = "returned"
        /\ \A i \in 1..Len(callIn.stdout) :
              IsJsonObject(callIn.stdout[i]) =>
                  SkillNamesOf(BlocksFallbackContent(callIn.stdout[i].val))
                      \subseteq Range(callOut.value)
        /\ ExampleLinesParse

\* an assistant object found by its role through its own content array, then
\* the second example line
C12_Witness ==
    /\ Parsed
    /\ callIn.stdout = <<JsonLine(Obj([role |-> Str("assistant"),
                                       content |-> Arr(<<SkillBlock("svelte-runes")>>)])),
                         AssistantLine("sveltekit-structure")>>
    /\ callOut = [kind |-> "returned", value |-> <<"svelte-runes", "sveltekit-structure">>]


\* the Skill tool_use blocks the four patterns match in the lines of a text
MatchedBlocks(stdout) ==
    UNION {IF IsJsonObject(stdout[i])
           THEN {b \in BlocksFallbackContent(stdout[i].val) : IsSkillToolUse(b)}
           ELSE {} : i \in 1..Len(stdout)}

NonEmptyString(v) == v.t = "string" /\ v.s # ""

\* what one matched block adds: input.skill, else input.args, else nothing
NamesAddedBy(block) ==
    LET skill == Prop(Prop(block, "input"), "skill")
        args == Prop(Prop(block, "input"), "args") IN
    IF NonEmptyString(skill) THEN {skill.s}
    ELSE IF NonEmptyString(args) THEN {args.s}
    ELSE {}

\* C13: each matched Skill tool_use block adds input.skill when that is a
\* non-empty string, otherwise input.args when that is a non-empty string,
\* otherwise nothing; with both non-empty only input.skill is added
C13_SkillThenArgs ==
    Parsed =>
        /\ callOut.kind = "returned"
        /\ Range(callOut.value) = UNION {NamesAddedBy(b) : b \in MatchedBlocks(callIn.stdout)}

\* a block with neither field usable, then a block with both fields non-empty
C13_Witness ==
    /\ Parsed
    /\ callIn.stdout = <<JsonLine(ToolUse(Obj(FieldsOf(Num(7), Str(""))))),
                         JsonLine(ToolUse(Obj(FieldsOf(Str("svelte-runes"),
                                                       Str("sveltekit-structure")))))>>
    /\ callOut = [kind |-> "returned", value |-> <<"svelte-runes">>]


NoDuplicates(seq) == \A i, j \in 1..Len(seq) : seq[i] = seq[j] => i = j

Perms(n) == {f \in [1..n -> 1..n] : \A i, j \in 1..n : f[i] = f[j] => i = j}

Permute(seq, f) == [i \in 1..Len(seq) |-> seq[f[i]]]

\* C14: the returned list has no duplicate name, a second parse of the same text
\* returns the same names, and so does the parse of any permutation of its lines
C14_SetSemantics ==
    Parsed =>
        /\ callOut.kind = "returned"
        /\ NoDuplicates(callOut.value)
        /\ Range(parseSkillActivations(callIn.stdout)) = Range(callOut.value)
        /\ \A f \in Perms(Len(callIn.stdout)) :
              /\ ~ParseThrows(Permute(callIn.stdout, f))
              /\ Range(parseSkillActivations(Permute(callIn.stdout, f))) = Range(callOut.value)

\* one line matched by patterns 2 and 4 at once, then a line naming another capability
C14_Witness ==
    /\ Parsed
    /\ callIn.stdout =
          <<JsonLine(Obj([type |-> Str("message"), role |-> Str("assistant"),
                          message |-> Obj([content |-> Arr(<<SkillBlock("svelte-runes")>>)])])),
            AssistantLine("sveltekit-structure")>>
    /\ callOut = [kind |-> "returned", value |-> <<"svelte-runes", "sveltekit-structure">>]
    /\ parseSkillActivations(<<callIn.stdout[2], callIn.stdout[1]>>)
          = <<"sveltekit-structure", "svelte-runes">>


(***************************************************************************)
(* The drivers, continued                                                  *)
(***************************************************************************)
\* the monitored command returned a text with a line activating the capability
\* the test case expects
ActivatesExpected(response, testCase) ==
    /\ response.result.t = "text"
    /\ \E i \in 1..Len(response.result.lines) :
          response.result.lines[i] \in {BlockStartLine(testCase.expected_skill),
                                        AssistantLine(testCase.expected_skill)}

TimeoutMessage == "Command execution timed out"

Half == [num |-> 1, den |-> 2]

MissingCredential == REQUIRED_ENV \ env # {}

UnknownConfigArg == driver = "main" /\ argConfig # NoArg /\ ~HasHookConfig(argConfig)

\* C16: with a required credential missing, or with --config naming an id the
\* catalog does not have, the driver never creates a sandbox and never runs a
\* test, and its only way on is the exit with status 1
C16_FailsBeforeAnyWork ==
    /\ []((MissingCredential \/ UnknownConfigArg) =>
            /\ created = {}
            /\ results = <<>>
            /\ rt = "idle"
            /\ allResults = <<>>
            /\ pc \in {"start", "parseArgs", "fatal"})
    /\ [][/\ (MissingCredential /\ pc = "start") => pc' = "fatal"
          /\ (UnknownConfigArg /\ pc = "parseArgs") => pc' = "fatal"]_vars

\* both credentials are set and --config names an unknown id: the driver has
\* exited with status 1 from parseArgs
C16_Witness ==
    /\ pc = "fatal"
    /\ env = REQUIRED_ENV
    /\ argConfig = "bogus"
    /\ created = {}
    /\ results = <<>>


\* the ids of the configurations whose runConfig returned, in the order they ran
SucceededIds ==
    LET ran == [j \in 1..Len(configIds) |-> [id |-> configIds[j], status |-> cfgStatus[j]]]
        ok == SelectSeq(ran, LAMBDA e : e.status = "succeeded")
    IN [k \in 1..Len(ok) |-> ok[k].id]

ReportedIds == [i \in 1..Len(printed.report.rows) |-> printed.report.rows[i].config]

AfterTheLoop == pc \in {"report", "done"} \/ (pc = "fatal" /\ configIds # <<>>
                                                  /\ cfgIdx > Len(configIds))

\* C17: once the loop is over the report is generated exactly when some
\* configuration returned a ConfigResult; the report lists the configurations
\* that returned one, in the order they ran; and the driver exits with status 1
\* only from validateEnv, parseArgs or generateReport, never from a failed
\* configuration
C17_ReportIffSomeSucceeded ==
    /\ [](/\ pc \in {"done", "fatal"} =>
               (printed.report.printed <=>
                   \E j \in 1..Len(cfgStatus) : cfgStatus[j] = "succeeded")
          /\ printed.report.printed =>
               /\ ReportedIds = SucceededIds
               /\ printed.report.json = allResults
               /\ Len(allResults) > 0
          /\ AfterTheLoop =>
               [i \in 1..Len(allResults) |-> allResults[i].hook_config] = SucceededIds)
    /\ [][pc' = "fatal" => pc \in {"start", "parseArgs", "report"}]_vars
    /\ [][(pc = "loop" /\ cfgIdx > Len(configIds)) => pc' \in {"report", "done"}]_vars

\* the first configuration failed, the second returned, and the report with the
\* second alone has been generated
C17_Witness ==
    /\ pc = "done"
    /\ cfgStatus = <<"failed", "succeeded">>
    /\ Len(errorLog) = 1
    /\ printed.report.printed
    /\ ReportedIds = <<configIds[2]>>


\* sandboxes created and not deleted
Undeleted == created \ deleted

\* sandboxes created whose teardownSandbox call has not been made yet
NotTornDown == {h \in created : teardowns[h] = 0}

\* C18 as stated: at most one sandbox is created and not yet deleted, at most one
\* runTest is in flight and it runs while its sandbox exists, and a sandbox is
\* created only when every earlier one has been deleted
C18_AtMostOneUndeleted ==
    /\ [](/\ Cardinality(Undeleted) <= 1
          /\ rt = "running" => (pc = "exec" /\ Undeleted = {cfgIdx}))
    /\ [][created' # created => Undeleted = {}]_vars

\* C18 amended: at most one sandbox is created with its teardown not yet
\* attempted, at most one runTest is in flight and it runs on that sandbox, and
\* a sandbox is created only when the teardown of every earlier one has been
\* attempted
C18_AtMostOneInUse ==
    /\ [](/\ Cardinality(NotTornDown) <= 1
          /\ rt = "running" => (pc = "exec" /\ NotTornDown = {cfgIdx}))
    /\ [][created' # created =>
             /\ NotTornDown = {}
             /\ \A h \in created : teardowns[h] = 1]_vars

\* the delete of the first sandbox failed, and a test of the second
\* configuration is in flight
C18_Witness ==
    /\ cfgIdx = 2
    /\ created = {1, 2}
    /\ deleted = {}
    /\ teardowns = <<1, 0>>
    /\ rt = "running"


(***************************************************************************)
(* The head-to-head analyses                                               *)
(***************************************************************************)
HasResult(cr, id) == \E j \in 1..Len(cr.results) : cr.results[j].test_id = id

ResultOf(cr, id) == cr.results[CHOOSE j \in 1..Len(cr.results) : cr.results[j].test_id = id]

\* the positive test cases of HARD_TEST_CASES with a result in both a and b
PositivesInBoth(a, b) ==
    {tc \in Range(HARD_TEST_CASES) :
        tc.expected_skill # NONE /\ HasResult(a, tc.id) /\ HasResult(b, tc.id)}

WinsOf(id) == {k \in 1..Len(printed.diff.wins) : printed.diff.wins[k].test_id = id}

\* C19: printDiffTable counts each positive test case of HARD_TEST_CASES with a
\* result in both ConfigResults once: a tie when the correct flags agree, an
\* a-win when only a is correct, a b-win when only b is correct; negative cases
\* and ids missing on a side are counted nowhere, so the three counts add up to
\* the number of positive ids present in both
C19_DiffClassifiesPositives ==
    (pc = "analysed" /\ Len(callIn.allResults) >= 2) =>
        LET a == callIn.allResults[1]
            b == callIn.allResults[2]
            both == PositivesInBoth(a, b)
            out == printed.diff
        IN /\ out.printed
           /\ out.ties = Cardinality({tc \in both :
                              ResultOf(a, tc.id).correct = ResultOf(b, tc.id).correct})
           /\ out.aWins = Cardinality({tc \in both :
                              ResultOf(a, tc.id).correct /\ ~ResultOf(b, tc.id).correct})
           /\ out.bWins = Cardinality({tc \in both :
                              ~ResultOf(a, tc.id).correct /\ ResultOf(b, tc.id).correct})
           /\ out.ties + out.aWins + out.bWins = Cardinality(both)
           /\ \A k \in 1..Len(out.wins) : out.wins[k].test_id \in {tc.id : tc \in both}
           /\ (/\ HasResult(a, "hard-011") /\ HasResult(b, "hard-011")
               /\ ResultOf(a, "hard-011").correct /\ ~ResultOf(b, "hard-011").correct)
                 => /\ Cardinality(WinsOf("hard-011")) = 1
                    /\ \A k \in WinsOf("hard-011") : out.wins[k].winner = a.hook_config

\* hard-011 is correct in a and not in b, the negative case hard-016 has a
\* result on both sides: one a-win, nothing else
C19_Witness ==
    /\ pc = "analysed"
    /\ Len(callIn.allResults) = 2
    /\ HasResult(callIn.allResults[1], "hard-011") /\ HasResult(callIn.allResults[2], "hard-011")
    /\ HasResult(callIn.allResults[1], "hard-016") /\ HasResult(callIn.allResults[2], "hard-016")
    /\ ResultOf(callIn.allResults[1], "hard-011").correct
    /\ ~ResultOf(callIn.allResults[2], "hard-011").correct
    /\ printed.diff.aWins = 1 /\ printed.diff.bWins = 0 /\ printed.diff.ties = 0
    /\ printed.diff.wins = <<[winner |-> "forced-eval", test_id |-> "hard-011"]>>

NegativeIndices(cr) == {j \in 1..Len(cr.results) : cr.results[j].expected_skill = NONE}

\* C20: printNegativeAnalysis looks, per configuration, only at the results with
\* expected_skill 'none': true negatives are those not activated, false
\* positives those activated, and the two counts add up to the number of
\* negative results of the configuration
C20_NegativesSplitByActivated ==
    pc \in {"negativesPrinted", "analysed"} =>
        /\ printed.negatives.printed
        /\ Len(printed.negatives.configs) = Len(callIn.allResults)
        /\ \A i \in 1..Len(callIn.allResults) :
              LET cr == callIn.allResults[i]
                  out == printed.negatives.configs[i]
              IN /\ out.hook_config = cr.hook_config
                 /\ out.trueNeg = Cardinality({j \in NegativeIndices(cr) :
                                                  ~cr.results[j].activated})
                 /\ out.falsePos = Cardinality({j \in NegativeIndices(cr) :
                                                   cr.results[j].activated})
                 /\ out.trueNeg + out.falsePos = Cardinality(NegativeIndices(cr))
                 /\ out.total = Cardinality(NegativeIndices(cr))
                 /\ {out.lines[k].test_id : k \in 1..Len(out.lines)}
                       = {cr.results[j].test_id : j \in NegativeIndices(cr)}

\* the negative case is quiet in the first configuration and activated in the
\* second, each next to a positive result
C20_Witness ==
    /\ pc = "negativesPrinted"
    /\ Len(callIn.allResults) = 2
    /\ Len(callIn.allResults[1].results) = 2
    /\ Len(callIn.allResults[2].results) = 2
    /\ printed.negatives.configs[1].trueNeg = 1
    /\ printed.negatives.configs[1].falsePos = 0
    /\ printed.negatives.configs[2].trueNeg = 0
    /\ printed.negatives.configs[2].falsePos = 1


(***************************************************************************)
(* The catalog                                                             *)
(***************************************************************************)
IdsOf(catalog) == {catalog[i].id : i \in 1..Len(catalog)}

\* C21: getHookConfig returns the catalog entry with the id asked for when the
\* catalog has it and throws when it has not; the ids of HOOK_CONFIGS are
\* pairwise distinct; getConfigIds returns the ids in catalog order
C21_CatalogLookup ==
    /\ \A i, j \in 1..Len(ALL_HOOK_CONFIGS) :
          ALL_HOOK_CONFIGS[i].id = ALL_HOOK_CONFIGS[j].id => i = j
    /\ \A i \in 1..Len(HOOK_CONFIGS) :
          /\ HasHookConfig(HOOK_CONFIGS[i].id)
          /\ getHookConfig(HOOK_CONFIGS[i].id) = HOOK_CONFIGS[i]
          /\ getHookConfigOf(ALL_HOOK_CONFIGS, HOOK_CONFIGS[i].id).value = HOOK_CONFIGS[i]
    /\ pc \in {"gotConfig", "gotIds"} =>
          IF callIn.id \in IdsOf(callIn.catalog)
          THEN /\ callOut.config.kind = "returned"
               /\ callOut.config.value.id = callIn.id
               /\ \E i \in 1..Len(callIn.catalog) : callIn.catalog[i] = callOut.config.value
          ELSE callOut.config.kind = "threw"
    /\ pc = "gotIds" =>
          /\ callOut.ids.kind = "returned"
          /\ Len(callOut.ids.value) = Len(callIn.catalog)
          /\ \A i \in 1..Len(callIn.catalog) : callOut.ids.value[i] = callIn.catalog[i].id

\* the whole catalog asked for an id it does not have
C21_Witness ==
    /\ pc = "gotIds"
    /\ callIn.catalog = ALL_HOOK_CONFIGS
    /\ callIn.id = "bogus"
    /\ callOut.config.kind = "threw"
    /\ callOut.ids.value = <<"none", "simple", "forced-eval", "llm-eval", "type-prompt">>


(***************************************************************************)
(* setupSandbox                                                            *)
(***************************************************************************)
BundleSteps(present, name) ==
    IF present THEN <<Step("upload", <<name>>), Step("extract", <<name>>)>> ELSE <<>>

RECURSIVE FileSteps(_)
FileSteps(n) ==
    IF n = 0 THEN <<>>
    ELSE FileSteps(n - 1) \o <<Step("upload", <<"file", n>>), Step("chmod", <<"file", n>>)>>

\* the steps of a setup in the order of the claim
StepsInOrder ==
    <<Step("mkdir", <<"dirs">>)>>
    \o BundleSteps(callIn.skillsDir, "skills")
    \o BundleSteps(callIn.hooksDir, "hooks")
    \o FileSteps(callIn.config.extra_files)
    \o <<Step("upload", <<"settings.json">>)>>

IsPrefix(p, q) == Len(p) <= Len(q) /\ SubSeq(q, 1, Len(p)) = p

InSetup == callIn.kind = "setup"

\* C22: the steps of setupSandbox happen in the order directories, skills
\* bundle, hooks bundle, each extra file uploaded and made executable,
\* settings.json last; a bundle whose local directory is missing is passed over
\* without an error and the later steps run
C22_SetupOrder ==
    /\ [](InSetup =>
            /\ IsPrefix(callOut.log, StepsInOrder)
            /\ callOut.status = "returned" <=> callOut.log = StepsInOrder
            /\ callOut.status = "returned" => callOut.log[Len(callOut.log)].target = <<"settings.json">>)
    /\ [][(InSetup /\ pc = "setup:skills" /\ ~callIn.skillsDir)
             => (pc' = "setup:hooks" /\ callOut' = callOut)]_vars
    /\ [][(InSetup /\ pc = "setup:hooks" /\ ~callIn.hooksDir)
             => (pc' = "setup:files" /\ callOut' = callOut)]_vars

\* no skills directory, a hooks directory and one extra file: the setup
\* returned after five calls
C22_Witness ==
    /\ InSetup
    /\ ~callIn.skillsDir /\ callIn.hooksDir
    /\ callIn.config.id = "forced-eval"
    /\ callOut.status = "returned"
    /\ callOut.log = <<Step("mkdir", <<"dirs">>), Step("upload", <<"hooks">>), Step("extract", <<"hooks">>),
                       Step("upload", <<"file", 1>>), Step("chmod", <<"file", 1>>),
                       Step("upload", <<"settings.json">>)>>


(***************************************************************************)
(* Order of the steps of a run                                             *)
(***************************************************************************)
\* the moves from one position of the driver to the next that keep the order
\* createSandbox, setupSandbox, uploadMonitorScript, runTest..., aggregateResults,
\* teardownSandbox, next configuration or report
StepOrder ==
    {<<"start", "parseArgs">>, <<"start", "loop">>, <<"start", "fatal">>,
     <<"parseArgs", "loop">>, <<"parseArgs", "fatal">>,
     <<"loop", "setup">>, <<"loop", "loop">>,
     <<"setup", "uploadMonitor">>, <<"setup", "finally">>,
     <<"uploadMonitor", "tests">>, <<"uploadMonitor", "finally">>,
     <<"tests", "exec">>, <<"tests", "finally">>, <<"tests", "save">>,
     <<"exec", "tests">>,
     <<"save", "finally">>,
     <<"finally", "completed">>,
     <<"completed", "loop">>,
     <<"loop", "report">>, <<"loop", "done">>,
     <<"report", "done">>, <<"report", "fatal">>}

MoveInOrder == <<pc, pc'>> \in StepOrder

InConfigRun == pc \in {"setup", "uploadMonitor", "tests", "exec", "save", "finally", "completed"}

\* the results collected so far are those of the first test cases, in list order
ResultsInListOrder ==
    /\ Len(results) <= Len(Battery)
    /\ \A i \in 1..Len(results) : results[i].test_id = Battery[i].id

\* C23: in a configuration run the sandbox is created first, then set up, then
\* the monitor script is uploaded, then runTest is called for the test cases in
\* list order, then the results are aggregated, then the sandbox is torn down;
\* the report is rendered only when every configuration's run, its teardown
\* included, is over
C23_StepsInOrder ==
    /\ [][MoveInOrder]_vars
    /\ [](/\ InConfigRun => cfgIdx \in created
          /\ pc \in {"setup", "uploadMonitor"} => (results = <<>> /\ rt = "idle")
          /\ pc \in {"setup", "uploadMonitor", "tests", "exec", "save", "finally"}
                => teardowns[cfgIdx] = 0
          /\ InConfigRun => ResultsInListOrder
          /\ pc \in {"tests", "exec"} => (Len(results) = tcIdx - 1
                                            /\ configResult = NoConfigResult)
          /\ pc = "exec" => (rt = "running" /\ tcIdx <= Len(Battery))
          /\ configResult # NoConfigResult =>
                (Len(results) = Len(Battery) /\ configResult.results = results)
          /\ pc = "save" => configResult # NoConfigResult
          /\ (pc = "completed" /\ pending.kind = "return") =>
                (pending.value = configResult /\ configResult # NoConfigResult)
          /\ pc = "completed" => teardowns[cfgIdx] = 1
          /\ (pc = "report" \/ printed.report.printed) =>
                /\ cfgIdx > Len(configIds)
                /\ \A h \in created : teardowns[h] = 1
                /\ \A j \in 1..Len(cfgStatus) : cfgStatus[j] \in {"succeeded", "failed"})

\* the second configuration's sandbox has been torn down after both of its
\* tests, the first configuration having returned before: the report comes next
C23_Witness ==
    /\ pc = "report"
    /\ cfgStatus = <<"succeeded", "succeeded">>
    /\ teardowns = <<1, 1>>
    /\ Len(allResults) = 2
    /\ Len(allResults[2].results) = 2


(***************************************************************************)
(* The monitor script                                                      *)
(***************************************************************************)
InMonitor == callIn.kind = "monitor"

\* C24: the time runTest waits for the command (EARLY_EXIT_TIMEOUT_SEC + 15) is
\* strictly greater than the longest life of the target process (the script's
\* timeout plus the 5 seconds before SIGKILL), so the target is never alive
\* when the caller's wait ends
C24_WaitOutlastsTarget ==
    /\ WaitBudget > EARLY_EXIT_TIMEOUT_SEC + KILL_GRACE_SEC
    /\ InMonitor =>
          /\ WaitBudget > ScriptTimeout + KILL_GRACE_SEC
          /\ callOut.clock <= ScriptTimeout + KILL_GRACE_SEC
          /\ TargetAlive => callOut.clock < WaitBudget

\* the target has outlived the SIGTERM for the whole grace period and has just
\* been killed, 25 seconds after its start
C24_Witness ==
    /\ InMonitor
    /\ callIn.timeoutArg
    /\ callOut.target = "killed"
    /\ callOut.clock = EARLY_EXIT_TIMEOUT_SEC + KILL_GRACE_SEC
    /\ callOut.clock < WaitBudget


StartedWithQueryFile == InMonitor /\ callIn.queryFile

PrintedAllCaptured == callOut.stdout = [printed |-> TRUE, lines |-> callOut.captured]

\* C25: started with an existing query file, the script prints what the target
\* has written, whether the target exited by itself or was killed, and only then
\* removes its output file and the query file; every such run gets there
C25_PrintsThenCleans ==
    /\ [](StartedWithQueryFile =>
            /\ pc \in {"monitor:rm", "monitor:exited"} =>
                  (PrintedAllCaptured /\ callOut.target \in {"exited", "killed"})
            /\ pc = "monitor:rm" => (callOut.outputFile /\ callOut.queryFile)
            /\ pc = "monitor:exited" => (~callOut.outputFile /\ ~callOut.queryFile)
            /\ pc \in {"monitor:start", "monitor:wait"} => callOut.queryFile)
    /\ (StartedWithQueryFile /\ pc = "monitor:start")
          ~> (pc = "monitor:exited" /\ PrintedAllCaptured
                /\ ~callOut.outputFile /\ ~callOut.queryFile)

\* the target wrote a line, outlived the SIGTERM and was killed; the line was
\* printed and both files are gone
C25_Witness ==
    /\ StartedWithQueryFile
    /\ pc = "monitor:exited"
    /\ callOut.target = "killed"
    /\ callOut.captured = 1
    /\ callOut.stdout = [printed |-> TRUE, lines |-> 1]
    /\ ~callOut.outputFile /\ ~callOut.queryFile


(***************************************************************************)
(* The activation parser, continued                                        *)
(***************************************************************************)
\* block is a tool_use block named exactly 'Skill' whose input object has name
\* as its skill or args member
NamedBySkillBlock(block, name) ==
    /\ block.t = "object"
    /\ Prop(block, "type") = Str("tool_use")
    /\ Prop(block, "name") = Str("Skill")
    /\ Prop(block, "input").t = "object"
    /\ name # ""
    /\ Str(name) \in {Prop(Prop(block, "input"), "skill"), Prop(Prop(block, "input"), "args")}

\* the blocks of every line of the text that parses as a JSON object
BlocksOfText(stdout) ==
    UNION {IF IsJsonObject(stdout[i]) THEN BlocksEitherContent(stdout[i].val) ELSE {} :
              i \in 1..Len(stdout)}

\* C26: every name parseSkillActivations returns is the non-empty skill or args
\* string of the input of a tool_use block named exactly 'Skill', on a line that
\* is a JSON object in one of the four shapes; blocks of other tools, blocks
\* that are not tool_use and blocks without an input object add nothing
C26_OnlySkillBlocksCount ==
    Parsed =>
        /\ callOut.kind = "returned"
        /\ \A i \in 1..Len(callOut.value) :
              \E b \in BlocksOfText(callIn.stdout) : NamedBySkillBlock(b, callOut.value[i])
        /\ (\A b \in BlocksOfText(callIn.stdout) :
                \/ Prop(b, "type") # Str("tool_use")
                \/ Prop(b, "name") # Str("Skill")
                \/ Prop(b, "input").t \in {"undefined", "null"})
              => callOut.value = <<>>

\* a tool_use block of the Read tool with a skill in its input, then the
\* second example line: only the Skill block is returned
C26_Witness ==
    /\ Parsed
    /\ callIn.stdout =
          <<JsonLine(Obj([type |-> Str("content_block_start"),
                          content_block |-> Obj([type |-> Str("tool_use"),
                                                 name |-> Str("Read"),
                                                 input |-> Obj([skill |-> Str("svelte-runes")])])])),
            AssistantLine("sveltekit-structure")>>
    /\ callOut = [kind |-> "returned", value |-> <<"sveltekit-structure">>]


(***************************************************************************)
(* ConfigResults of a driver run                                           *)
(***************************************************************************)
\* cr holds one result per test case of the battery, in battery order, each
\* carrying the configuration id of cr
OnePerTestCase(cr) ==
    /\ cr.total_tests = Len(Battery)
    /\ Len(cr.results) = Len(Battery)
    /\ \A i \in 1..Len(Battery) :
          /\ cr.results[i].test_id = Battery[i].id
          /\ cr.results[i].hook_config = cr.hook_config

\* C27: every ConfigResult of a driver run has exactly one TestResult per test
\* case of the battery, in battery order, total_tests being the battery length
\* and every member carrying the id of the configuration, failed tests included
C27_OneResultPerTestCase ==
    /\ \A cr \in Aggregated : OnePerTestCase(cr)
    /\ (configResult # NoConfigResult /\ InConfigRun) => configResult.hook_config = ConfigId
    /\ \A k \in 1..Len(allResults) :
          \E j \in 1..Len(configIds) :
              cfgStatus[j] = "succeeded" /\ allResults[k].hook_config = configIds[j]

\* a returned configuration whose first test failed with an error and whose
\* second one activated a capability
C27_Witness ==
    /\ Len(allResults) = 1
    /\ allResults[1].total_tests = 2
    /\ allResults[1].results[1].error = "socket hang up"
    /\ allResults[1].results[2].activated
    /\ allResults[1].results[2].test_id = Battery[2].id


\* the ids of the configurations in the accumulated results
AccumulatedIds == {allResults[k].hook_config : k \in 1..Len(allResults)}

\* the step that adds a ConfigResult: runConfig has returned it, after the save
\* and after a teardown that deleted the sandbox
PushesCompletedRun ==
    allResults' # allResults =>
        /\ pc = "completed"
        /\ pending = Return(configResult)
        /\ configResult # NoConfigResult
        /\ teardowns[cfgIdx] = 1
        /\ cfgIdx \in deleted
        /\ allResults' = Append(allResults, configResult)

\* C28: a ConfigResult is added to the accumulated results only when the whole
\* run of its configuration completed without a throw, saveConfigResult and
\* teardownSandbox included; a configuration whose teardown threw after its
\* tests were aggregated is in neither the accumulated results nor the report
C28_OnlyCompletedRunsAccumulate ==
    /\ [][PushesCompletedRun]_vars
    /\ [](/\ \A j \in 1..Len(cfgStatus) :
                cfgStatus[j] = "succeeded" => (j \in deleted /\ teardowns[j] = 1)
          /\ \A e \in 1..Len(errorLog) : errorLog[e].config \notin AccumulatedIds
          /\ \A j \in created :
                (teardowns[j] = 1 /\ j \notin deleted) =>
                    /\ configIds[j] \notin AccumulatedIds
                    /\ printed.report.printed => configIds[j] \notin Range(ReportedIds))

\* the only configuration ran both tests and was aggregated and saved, its
\* teardown threw: the driver ends with nothing to report
C28_Witness ==
    /\ pc = "done"
    /\ driver = "main"
    /\ configIds = <<"forced-eval">>
    /\ configResult # NoConfigResult
    /\ Len(configResult.results) = 2
    /\ errorLog = <<[config |-> "forced-eval", message |-> DeleteError.message]>>
    /\ allResults = <<>>
    /\ ~printed.report.printed


(***************************************************************************)
(* Negative cases that failed                                              *)
(***************************************************************************)
FailedNegative(r) == r.expected_skill = NONE /\ r.error # NoError

One == [num |-> 1, den |-> 1]

\* C29: a negative test case whose execution failed is shown as a true negative
\* by printNegativeAnalysis and by resultIcon, both looking at activated alone,
\* while its correct flag is false and aggregateResults counts it as incorrect
C29_FailedNegativeIsTrueNegative ==
    pc = "iconsLogged" =>
        \A i \in 1..Len(callIn.allResults) :
            LET cr == callIn.allResults[i] IN
            \A j \in 1..Len(cr.results) :
                FailedNegative(cr.results[j]) =>
                    /\ ~cr.results[j].activated
                    /\ ~cr.results[j].correct
                    /\ callOut.icons[i][j] = "TN"
                    /\ [icon |-> "TN", test_id |-> cr.results[j].test_id]
                          \in Range(printed.negatives.configs[i].lines)
                    /\ printed.negatives.configs[i].trueNeg
                          = Cardinality({k \in NegativeIndices(cr) : ~cr.results[k].activated})
                    /\ printed.negatives.configs[i].trueNeg >= 1
                    /\ cr.correct_count
                          = Cardinality({k \in 1..Len(cr.results) : cr.results[k].correct})
                    /\ cr.correct_count < cr.total_tests
                    /\ cr.accuracy_rate # One

\* the first configuration got the positive case right and timed out on the
\* negative case: icons Y and TN, one true negative, accuracy 1/2
C29_Witness ==
    /\ pc = "iconsLogged"
    /\ Len(callIn.allResults[1].results) = 2
    /\ FailedNegative(callIn.allResults[1].results[2])
    /\ callOut.icons[1] = <<"Y", "TN">>
    /\ printed.negatives.configs[1].trueNeg = 1
    /\ callIn.allResults[1].correct_count = 1
    /\ callIn.allResults[1].accuracy_rate = Half


(***************************************************************************)
(* test_skill_activation                                                   *)
(***************************************************************************)
\* the content blocks of the assistant messages, in the order they are seen
RECURSIVE BlocksSeen(_)
BlocksSeen(messages) ==
    IF messages = <<>> THEN <<>>
    ELSE LET message == Head(messages)
             content == Prop(Prop(message, "message"), "content")
         IN (IF Prop(message, "type") = Str("assistant") /\ content.t = "array"
             THEN content.items ELSE <<>>) \o BlocksSeen(Tail(messages))

\* the skill named by the first Skill tool_use block, null if there is none
FirstSkillNamed(messages) ==
    LET blocks == BlocksSeen(messages)
        hits == {i \in 1..Len(blocks) : NamesSkill(blocks[i])}
    IN IF hits = {} THEN Null
       ELSE LET first == CHOOSE i \in hits : \A k \in hits : i <= k
            IN Str(JSString(Prop(Prop(blocks[first], "input"), "skill")))

\* C30: test_skill_activation returns, with passed = (activated_skill =
\* expected_skill and should_activate), activated_skill being the skill named by
\* the first Skill tool_use block of the assistant messages and null without
\* one; a test case with should_activate false never passes, and an error during
\* the query gives passed = false, activated_skill null and an error text
C30_FirstSkillBlockDecides ==
    pc = "activation:returned" =>
        LET tc == callIn.test_case
            r == callOut.result
        IN /\ r # NoCall
           /\ ~tc.should_activate => ~r.passed
           /\ IF callOut.caught
              THEN ~r.passed /\ r.activated_skill = Null /\ r.error # NoError
              ELSE /\ r.activated_skill = FirstSkillNamed(callIn.messages)
                   /\ r.passed = (r.activated_skill = Str(tc.expected_skill)
                                  /\ tc.should_activate)
                   /\ r.error = NoError


====
